---- MODULE Spec2Model ----
(***************************************************************************)
(* Toolset discovery and analysis engine of vscode-cpptools.               *)
(*                                                                         *)
(* Part I models the facade of ToolsetDetection/detectToolset.ts           *)
(* (initialize, getToolsets, identifyToolset, discover, searchForToolsets, *)
(* loadCachedEntries) together with the registry and the snapshot writer   *)
(* of ToolsetDetection/Service/toolset.ts.  Every `await` of the source is *)
(* a point where another call may run; the code between two awaits is one  *)
(* atomic action.  The earlier facade of Detection/compiler-detection.ts   *)
(* follows it.  Part II models Toolset.getIntellisenseConfiguration with   *)
(* its analysis cache.  The properties come last.                          *)
(***************************************************************************)
EXTENDS Integers, Sequences, FiniteSets, TLC

(***************************************************************************)
(* Bounds of the model.                                                    *)
(***************************************************************************)
NumCallers == 4          \* caller slots: facade calls made in one run
MaxInitCalls == 3        \* calls of initialize in SpecInitialize
MaxGetCalls == 2         \* calls of getToolsets in SpecDiscovery
MaxIdentifyCalls == 1    \* calls of identifyToolset in Spec
MaxConcurrentIdentifyCalls == 2 \* calls of identifyToolset in SpecIdentify
MaxCacheIdentifyCalls == 2 \* calls of identifyToolset in SpecCache
MaxSearches == 4         \* searches started in one run

Callers == 1..NumCallers

(***************************************************************************)
(* The host: files, definitions, and what the binaries contain.            *)
(***************************************************************************)
\* Executable files on the host, by canonical (resolved) path.
Paths == {"/bin/cc"}
\* Other spellings of a path that a caller may pass to identifyToolset.
Aliases == {"./cc"}
\* Name patterns a caller may pass to identifyToolset (they name no file).
Patterns == {"llvm*"}
Candidates == Paths \cup Aliases \cup Patterns
\* Names and patterns of which some match a part of a toolset name only.
NamePatterns == {"llvm", "llvm*", "*/2", "gnu*"}

\* A name or a pattern as its sequence of tokens; "*" is the wildcard.
Tokens(name) ==
    CASE name = "llvm*" -> <<"llvm", "*">>
      [] name = "gnu*" -> <<"gnu", "*">>
      [] name = "*/2" -> <<"*", "/", "2">>
      [] OTHER -> <<name>>

\* path.resolve: the canonical form of a file name.
resolve(p) == IF p = "./cc" THEN "/bin/cc" ELSE p

\* path.basename of a file name (without .exe).
basename(p) == "cc"

\* filepath.info(candidate): isFile and isExecutable.
IsFile(cand) == cand \in Paths \cup Aliases
IsExecutable(cand) == cand \in Paths \cup Aliases

\* The loaded definitions, in the order loadCompilerDefinitions yields them.
Defs == {1, 2}
NumDefs == Cardinality(Defs)

\* An entry of a discover block: the paths of the binaries its regular
\* expression matches (match) or for which its expression renders to a
\* non-empty string (expression), and for folder/file whether the rendered
\* value is an existing folder / file.
Entry(hits, isFolder, isFile) == [hits |-> hits, isFolder |-> isFolder, isFile |-> isFile]

\* definition.discover after getActions: the requirements in priority order.
\* The binary /bin/cc fails the block of definition 1 and completes that of
\* definition 2.
Requirements(d) ==
    IF d = 1
    THEN << [action |-> "match", flags |-> {},
             entries |-> << Entry({"/bin/cc"}, FALSE, FALSE),
                            Entry({}, FALSE, FALSE) >>] >>
    ELSE << [action |-> "match", flags |-> {"oneof"},
             entries |-> << Entry({}, FALSE, FALSE),
                            Entry({"/bin/cc"}, FALSE, FALSE) >>],
            [action |-> "expression", flags |-> {"optional", "folder"},
             entries |-> << Entry({"/bin/cc"}, TRUE, FALSE),
                            Entry({}, FALSE, FALSE) >>] >>

\* strings(definition.discover.binary)
Binary(d) == {"cc"}

\* definition.name and the version of the toolsets of a definition.
DefName(d) == IF d = 1 THEN "gnu" ELSE "llvm"
DefVersion(d) == d

(***************************************************************************)
(* Toolsets and the registry.                                              *)
(***************************************************************************)
\* new Toolset(compilerPath, definition); `by` is the identity of the object:
\* the discovery (kind and owner) or the cache load that constructed it.
Toolset(p, d, by) == [compilerPath |-> p, def |-> d, by |-> by]
NoToolset == [compilerPath |-> "", def |-> 0, by |-> <<"none", 0>>]

\* Toolset.name: "<definition.name>/<version>/..." as a token sequence.
ToolsetName(t) == << DefName(t.def), "/", ToString(DefVersion(t.def)) >>

\* Map.get on settings.discoveredToolsets (a sequence of [key, ts], in
\* insertion order).
RegGet(reg, key) ==
    IF \E i \in 1..Len(reg) : reg[i].key = key
    THEN reg[CHOOSE i \in 1..Len(reg) : reg[i].key = key].ts
    ELSE NoToolset

\* Map.set: an existing key keeps its position, a new key is appended.
RegSet(reg, key, ts) ==
    IF \E i \in 1..Len(reg) : reg[i].key = key
    THEN [i \in 1..Len(reg) |-> IF reg[i].key = key THEN [key |-> key, ts |-> ts] ELSE reg[i]]
    ELSE Append(reg, [key |-> key, ts |-> ts])

RegKeys(reg) == {reg[i].key : i \in 1..Len(reg)}
RegValues(reg) == {reg[i].ts : i \in 1..Len(reg)}

VARIABLES
    initialized,            \* detectToolset.ts `initialized`: 0 = undefined, else the ManualPromise (by creating caller)
    resolvedInit,           \* the ManualPromises of `initialized` that were resolved
    globalStoragePath,      \* settings.globalStoragePath: "none" = undefined
    registry,               \* settings.discoveredToolsets
    discoveringInProgress,  \* Map<DefinitionFile, Promise>: definition -> search id, 0 = absent
    discovering,            \* `discovering`: [set |-> FALSE] = undefined, else the searches of the Promise.all
    searches,               \* the searches started: id -> [def, pending]
    runs,                   \* discover calls past their registry check, awaiting verification
    identifyInProgress,     \* Map<string, Promise>: candidate -> [present, resolved, value]
    disk,                   \* detected-toolsets.json: [present, text, entries]
    writers,                \* updateDiscoveredToolsets calls in flight
    callers,                \* the facade calls: caller -> its frame
    budget,                 \* the calls the callers make in this run, per operation
    searchCount,            \* history: searches started per definition since the last reset
    intellisense,           \* toolset.ts: `definition.intellisense` of the toolset under analysis
    cachedAnalysis,         \* Toolset.cachedAnalysis: cache key -> [present, value]
    cachedQueries,          \* Toolset.cachedQueries, for the one query command: [present, text]
    spawns,                 \* history: the compiler processes spawned
    analyses,               \* the calls of getIntellisenseConfiguration, in call order
    evaluation              \* a function of the toolset evaluated on its own: its arguments, position and result

facadeVars == << initialized, resolvedInit, globalStoragePath, registry, discoveringInProgress,
                 discovering, searches, runs, identifyInProgress, disk, writers, callers, budget, searchCount >>

analysisVars == << intellisense, cachedAnalysis, cachedQueries, spawns, analyses, evaluation >>

vars == << facadeVars, analysisVars >>

(***************************************************************************)
(* Frames of the facade calls.                                             *)
(***************************************************************************)
NoArgs == [quick |-> FALSE, storage |-> "none", cand |-> ""]

\* A caller that has made no call yet.
\* The last fields are history: what held when the call was made.
IdleFrame == [op |-> "none", pc |-> "idle", args |-> NoArgs,
              wait |-> 0, i |-> 0, awaiting |-> {},
              ret |-> "pending", value |-> NoToolset,
              begun |-> FALSE,     \* an initialize call had been made
              early |-> FALSE,     \* no initialize call had completed
              epoch |-> 0,         \* the resets made so far
              overlap |-> {}]      \* the calls of identifyToolset for the same candidate in flight

Frame(c) == callers[c]
Calls(op) == {c \in Callers : callers[c].op = op}

\* Callers are interchangeable: they make their calls in slot order.
MayCall(c, op) ==
    /\ callers[c].pc = "idle"
    /\ \A b \in Callers : b < c => callers[b].pc # "idle"
    /\ Cardinality(Calls(op)) < budget[op]

\* An initialize call has been made / has run to its end.
InitBegun == \E c \in Callers : callers[c].op = "initialize"
InitCompleted == \E c \in Callers : callers[c].op = "initialize" /\ callers[c].pc = "done"

\* The resets made so far: the initialize calls without options.quick that
\* have cleared the registry.
Resets == Cardinality({c \in Callers : /\ callers[c].op = "initialize"
                                      /\ ~callers[c].args.quick
                                      /\ callers[c].pc \in {"isFile", "readFile", "loaded", "done"}})

\* The call of an operation begins: the frame with its history fields.
Called(c, op, args) ==
    [callers[c] EXCEPT !.op = op, !.args = args,
                       !.begun = InitBegun, !.early = ~InitCompleted, !.epoch = Resets,
                       !.overlap = {b \in Callers : /\ callers[b].op = "identifyToolset"
                                                    /\ op = "identifyToolset"
                                                    /\ callers[b].args.cand = args.cand
                                                    /\ callers[b].pc # "done"}]

(***************************************************************************)
(* updateDiscoveredToolsets (toolset.ts)                                   *)
(***************************************************************************)
\* detected-toolsets.json: no file, the JSON text of an object of entries,
\* or a text that is no JSON.
NoFile == [present |-> FALSE, text |-> "none", entries |-> <<>>]
File(entries) == [present |-> TRUE, text |-> "json", entries |-> entries]
CorruptFile == [present |-> TRUE, text |-> "corrupt", entries |-> <<>>]
\* The file while writeFile is writing it.
PartialFile == [present |-> TRUE, text |-> "partial", entries |-> <<>>]

\* The call itself: no storage path, nothing happens; else it awaits mkdir.
\* Every call is a writer of its own: `id` tells the calls in flight apart.
SpawnWriter(w, storage) ==
    IF storage = "none" THEN w
    ELSE LET ids == {x.id : x \in w}
             id == CHOOSE n \in 1..(Cardinality(w) + 1) : n \notin ids
         IN w \cup {[stage |-> "mkdir", contents |-> <<>>, id |-> id]}

\* Toolset.serialize of every registry entry, keyed by the registry key.
Serialize(reg) == [i \in 1..Len(reg) |-> [key |-> reg[i].key, compilerPath |-> reg[i].ts.compilerPath, def |-> reg[i].ts.def]]

\* After mkdir: the contents are collected and writeFile is awaited.
WriterCollect ==
    /\ \E w \in writers :
        /\ w.stage = "mkdir"
        /\ writers' = IF globalStoragePath = "none"
                      THEN writers \ {w}     \* resolve(undefined, ...) throws
                      ELSE (writers \ {w}) \cup {[w EXCEPT !.stage = "writeFile", !.contents = Serialize(registry)]}
    /\ UNCHANGED << analysisVars, budget, initialized, resolvedInit, globalStoragePath, registry, discoveringInProgress,
                    discovering, searches, runs, identifyInProgress, disk, callers, searchCount >>

\* writeFile opens detected-toolsets.json itself for writing: the file is
\* truncated and filled piece by piece.
WriterOpen ==
    /\ \E w \in writers :
        /\ w.stage = "writeFile"
        /\ writers' = (writers \ {w}) \cup {[w EXCEPT !.stage = "writing"]}
        /\ disk' = PartialFile
    /\ UNCHANGED << analysisVars, budget, initialized, resolvedInit, globalStoragePath, registry, discoveringInProgress,
                    discovering, searches, runs, identifyInProgress, callers, searchCount >>

\* writeFile completes. Two writeFile calls that write the one file at a
\* time may leave the text of either or a mix of both.
WriterWrite ==
    /\ \E w \in writers :
        /\ w.stage = "writing"
        /\ writers' = writers \ {w}
        /\ \/ disk' = File(w.contents)
           \/ /\ \E x \in writers \ {w} : x.stage = "writing"
              /\ disk' = CorruptFile
    /\ UNCHANGED << analysisVars, budget, initialized, resolvedInit, globalStoragePath, registry, discoveringInProgress,
                    discovering, searches, runs, identifyInProgress, callers, searchCount >>

(***************************************************************************)
(* loadCachedEntries and initialize (detectToolset.ts)                     *)
(***************************************************************************)
\* Toolset.deserialize of one entry of the file: the constructor throws
\* for an entry without definition or compilerPath, and undefined is
\* returned.
Deserialize(e) ==
    IF e.def \in Defs /\ e.compilerPath # ""
    THEN Toolset(e.compilerPath, e.def, <<"cache", 0>>)
    ELSE NoToolset

\* The loop of loadCachedEntries: every entry that deserializes is set
\* under the key of the file.
RECURSIVE LoadEntries(_, _)
LoadEntries(reg, entries) ==
    IF entries = <<>> THEN reg
    ELSE LET toolset == Deserialize(Head(entries))
         IN LoadEntries(IF toolset # NoToolset THEN RegSet(reg, Head(entries).key, toolset) ELSE reg,
                        Tail(entries))

\* initialize from `initialized = new ManualPromise()` to the first await of
\* loadCachedEntries.
InitBody(c, args) ==
    /\ initialized' = c
    /\ globalStoragePath' = args.storage
    /\ IF ~args.quick
       THEN /\ registry' = <<>>
            /\ discoveringInProgress' = [d \in Defs |-> 0]
            /\ searchCount' = [d \in Defs |-> 0]
       ELSE UNCHANGED << registry, discoveringInProgress, searchCount >>
    /\ callers' = [callers EXCEPT ![c] = [@ EXCEPT !.op = "initialize", !.args = args,
                       !.pc = IF args.storage = "none" THEN "loaded" ELSE "isFile"]]
    /\ UNCHANGED << analysisVars, budget, resolvedInit, discovering, searches, runs, identifyInProgress, disk, writers >>

\* initialize(configFolders, options) is called.
CallInitialize(c) ==
    /\ MayCall(c, "initialize")
    /\ \E quick \in BOOLEAN, storage \in budget.storage :
        LET args == [quick |-> quick, storage |-> storage, cand |-> ""] IN
        IF initialized = 0
        THEN InitBody(c, args)
        ELSE /\ callers' = [callers EXCEPT ![c] = [@ EXCEPT !.op = "initialize", !.args = args,
                                !.pc = "awaitInitialized", !.wait = initialized]]
             /\ UNCHANGED << analysisVars, budget, initialized, resolvedInit, globalStoragePath, registry,
                             discoveringInProgress, discovering, searches, runs,
                             identifyInProgress, disk, writers, searchCount >>

\* `await initialized` of initialize returns.
InitResume(c) ==
    /\ callers[c].op = "initialize"
    /\ callers[c].pc = "awaitInitialized"
    /\ callers[c].wait \in resolvedInit
    /\ InitBody(c, callers[c].args)

\* filepath.isFile(detected-toolsets.json) returns.
LoadIsFile(c) ==
    /\ callers[c].op = "initialize"
    /\ callers[c].pc = "isFile"
    /\ callers' = [callers EXCEPT ![c].pc = IF ~disk.present THEN "loaded" ELSE "readFile"]
    /\ UNCHANGED << analysisVars, budget, initialized, resolvedInit, globalStoragePath, registry, discoveringInProgress,
                    discovering, searches, runs, identifyInProgress, disk, writers, searchCount >>

\* readFile returns; the entries are parsed and set into the registry.
\* `parse` of comment-json throws for a text that is no JSON: the promises
\* of loadCachedEntries and of initialize are rejected, and `initialized`
\* stays unresolved.
LoadRead(c) ==
    /\ callers[c].op = "initialize"
    /\ callers[c].pc = "readFile"
    /\ disk.present
    /\ IF disk.text = "json"
       THEN /\ registry' = LoadEntries(registry, disk.entries)
            /\ callers' = [callers EXCEPT ![c].pc = "loaded"]
       ELSE /\ callers' = [callers EXCEPT ![c] = [@ EXCEPT !.pc = "rejected", !.ret = "threw"]]
            /\ UNCHANGED registry
    /\ UNCHANGED << analysisVars, budget, initialized, resolvedInit, globalStoragePath, discoveringInProgress,
                    discovering, searches, runs, identifyInProgress, disk, writers, searchCount >>

\* `initialized.resolve()` and the return of the registry.
InitFinish(c) ==
    /\ callers[c].op = "initialize"
    /\ callers[c].pc = "loaded"
    /\ resolvedInit' = resolvedInit \cup {initialized}
    /\ callers' = [callers EXCEPT ![c] = [@ EXCEPT !.pc = "done", !.ret = "registry"]]
    /\ UNCHANGED << analysisVars, budget, initialized, globalStoragePath, registry, discoveringInProgress,
                    discovering, searches, runs, identifyInProgress, disk, writers, searchCount >>

\* A call of initialize is between its reset and its `initialized.resolve()`.
InInitBody(c) == callers[c].op = "initialize" /\ callers[c].pc \in {"isFile", "readFile", "loaded"}

(***************************************************************************)
(* discover (detectToolset.ts): the verification of one candidate          *)
(***************************************************************************)
\* A variant of a requirement block that, under `oneof`, goes on after the
\* first match and applies the fragment of every entry that matches.
RECURSIVE RunBlockEveryMatch(_, _, _, _, _)
RunBlockEveryMatch(block, b, p, k, applied) ==
    LET flags == block.flags
        n == Len(block.entries)
        e == block.entries[k]
        hit == p \in e.hits
        apply == Append(applied, << b, k >>)
    IN
    IF block.action = "match"
    THEN IF "oneof" \in flags
         THEN IF k > n
              THEN [status |-> IF "optional" \in flags \/ \E x \in 1..Len(applied) : applied[x][1] = b
                               THEN "next" ELSE "fail",
                    applied |-> applied]
              ELSE IF hit
                   THEN RunBlockEveryMatch(block, b, p, k + 1, apply)
                   ELSE RunBlockEveryMatch(block, b, p, k + 1, applied)
         ELSE IF k > n
              THEN [status |-> "next", applied |-> applied]
              ELSE IF hit
                   THEN RunBlockEveryMatch(block, b, p, k + 1, apply)
                   ELSE IF "optional" \in flags
                        THEN RunBlockEveryMatch(block, b, p, k + 1, applied)
                        ELSE [status |-> "fail", applied |-> applied]
    ELSE \* "expression"
         IF k > n
         THEN [status |-> "next", applied |-> applied]
         ELSE LET success == IF "oneof" \in flags
                             THEN [status |-> "next", applied |-> apply]
                             ELSE RunBlockEveryMatch(block, b, p, k + 1, apply)
                  miss == IF "optional" \in flags \/ "oneof" \in flags
                          THEN RunBlockEveryMatch(block, b, p, k + 1, applied)
                          ELSE [status |-> "fail", applied |-> applied]
              IN IF hit
                 THEN IF "folder" \in flags
                      THEN IF e.isFolder THEN success ELSE miss
                      ELSE IF "file" \in flags
                           THEN IF e.isFile THEN success ELSE miss
                           ELSE success
                 ELSE miss

\* One requirement block against the binary p, from entry k on.  The result
\* says whether discover goes on with the next block ("next") or returns
\* undefined ("fail"), and which entries' fragments were applied.
RECURSIVE RunBlock(_, _, _, _, _)
RunBlock(block, b, p, k, applied) ==
    LET flags == block.flags
        n == Len(block.entries)
        e == block.entries[k]
        hit == p \in e.hits
        apply == Append(applied, << b, k >>)
    IN
    IF block.action = "match"
    THEN IF "oneof" \in flags
         THEN IF k > n
              THEN [status |-> IF "optional" \in flags THEN "next" ELSE "fail", applied |-> applied]
              ELSE IF hit
                   THEN [status |-> "next", applied |-> apply]
                   ELSE RunBlock(block, b, p, k + 1, applied)
         ELSE IF k > n
              THEN [status |-> "next", applied |-> applied]
              ELSE IF hit
                   THEN RunBlock(block, b, p, k + 1, apply)
                   ELSE IF "optional" \in flags
                        THEN RunBlock(block, b, p, k + 1, applied)
                        ELSE [status |-> "fail", applied |-> applied]
    ELSE \* "expression"
         IF k > n
         THEN [status |-> "next", applied |-> applied]
         ELSE LET success == IF "oneof" \in flags
                             THEN [status |-> "next", applied |-> apply]
                             ELSE RunBlock(block, b, p, k + 1, apply)
                  miss == IF "optional" \in flags \/ "oneof" \in flags
                          THEN RunBlock(block, b, p, k + 1, applied)
                          ELSE [status |-> "fail", applied |-> applied]
              IN IF hit
                 THEN IF "folder" \in flags
                      THEN IF e.isFolder THEN success ELSE miss
                      ELSE IF "file" \in flags
                           THEN IF e.isFile THEN success ELSE miss
                           ELSE success
                 ELSE miss

\* The loop over the requirements: [ok, applied].
RECURSIVE RunRequirements(_, _, _, _)
RunRequirements(reqs, p, b, applied) ==
    IF b > Len(reqs)
    THEN [ok |-> TRUE, applied |-> applied]
    ELSE LET r == RunBlock(reqs[b], b, p, 1, applied)
         IN IF r.status = "fail"
            THEN [ok |-> FALSE, applied |-> r.applied]
            ELSE RunRequirements(reqs, p, b + 1, r.applied)

\* Whether the binary p completes the discover block of definition d.
Verifies(d, p) == RunRequirements(Requirements(d), p, 1, <<>>).ok

\* The first statement of discover: compilerPath = resolve(compilerPath).
DiscoverPath(compilerPath) == resolve(compilerPath)

\* The end of discover for a verified candidate: the toolset is set into the
\* registry under compilerPath.
Register(reg, ts) == RegSet(reg, ts.compilerPath, ts)

(***************************************************************************)
(* searchForToolsets (detectToolset.ts)                                    *)
(***************************************************************************)
\* What the finder emits for a definition: the executables named by
\* definition.discover.binary.
FinderResults(d) == {p \in Paths : basename(p) \in Binary(d)}

SearchIds == 1..Len(searches)

\* The promise of a search is fulfilled: the finder is drained and every
\* discover it started has returned.
SearchComplete(s) ==
    /\ ~searches[s].failed
    /\ searches[s].pending = {}
    /\ ~\E r \in runs : r.kind = "search" /\ r.owner = s

\* The finder emits p and the search calls discover(p, definition), which
\* returns at once when the registry holds the path.
SearchFind(s) ==
    /\ \E p \in searches[s].pending :
        /\ searches' = [searches EXCEPT ![s].pending = @ \ {p}]
        /\ runs' = IF RegGet(registry, DiscoverPath(p)) # NoToolset
                   THEN runs
                   ELSE runs \cup {[kind |-> "search", owner |-> s, def |-> searches[s].def, path |-> DiscoverPath(p)]}
    /\ UNCHANGED << analysisVars, budget, initialized, resolvedInit, globalStoragePath, registry, discoveringInProgress,
                    discovering, identifyInProgress, disk, writers, callers, searchCount >>

\* Something a search awaits (runConditions, render, the finder) throws
\* while the finder has paths to emit: the exception leaves
\* searchForToolsets and the callback of `then`, and the promise of the
\* search, which stays in discoveringInProgress, is rejected.
SearchThrows(s) ==
    /\ ~searches[s].failed
    /\ searches[s].pending # {}
    /\ searches' = [searches EXCEPT ![s].failed = TRUE]
    /\ UNCHANGED << analysisVars, budget, initialized, resolvedInit, globalStoragePath, registry, discoveringInProgress,
                    discovering, runs, identifyInProgress, disk, writers, callers, searchCount >>

\* The promise stored in identifyInProgress, resolved with a value.
Resolved(v) == [present |-> TRUE, resolved |-> TRUE, value |-> v]
Unresolved == [present |-> TRUE, resolved |-> FALSE, value |-> NoToolset]
Absent == [present |-> FALSE, resolved |-> FALSE, value |-> NoToolset]

\* A frame that returned a toolset or undefined.
Returned(f, t) == [f EXCEPT !.pc = "done", !.ret = IF t = NoToolset THEN "none" ELSE "toolset", !.value = t]

\* A variant of the end of discover that registers the toolset whether or
\* not the requirements were met.
DiscoverFinishUnverified(r) ==
    LET ts == Toolset(r.path, r.def, <<r.kind, r.owner>>)
        c == r.owner
    IN
    /\ runs' = runs \ {r}
    /\ registry' = Register(registry, ts)
    /\ writers' = SpawnWriter(writers, globalStoragePath)
    /\ IF r.kind = "identify"
       THEN /\ callers' = [callers EXCEPT ![c] = Returned(@, ts)]
            /\ identifyInProgress' = [identifyInProgress EXCEPT ![callers[c].args.cand] = Resolved(ts)]
       ELSE UNCHANGED << callers, identifyInProgress >>
    /\ UNCHANGED << analysisVars, budget, initialized, resolvedInit, globalStoragePath, discoveringInProgress,
                    discovering, searches, disk, searchCount >>

\* The verification of a candidate ends: discover registers the toolset and
\* returns it, or returns undefined.
DiscoverFinish(r) ==
    LET ok == Verifies(r.def, r.path)
        ts == Toolset(r.path, r.def, <<r.kind, r.owner>>)
        c == r.owner
    IN
    /\ runs' = runs \ {r}
    /\ IF ok
       THEN /\ registry' = Register(registry, ts)
            /\ writers' = SpawnWriter(writers, globalStoragePath)
       ELSE UNCHANGED << registry, writers >>
    /\ IF r.kind = "identify"
       THEN IF ok
            THEN \* identify returns the toolset; promise.resolve(result)
                 /\ callers' = [callers EXCEPT ![c] = Returned(@, ts)]
                 /\ identifyInProgress' = [identifyInProgress EXCEPT ![callers[c].args.cand] = Resolved(ts)]
            ELSE \* next definition
                 /\ callers' = [callers EXCEPT ![c] = [@ EXCEPT !.pc = "identify", !.i = @ + 1]]
                 /\ UNCHANGED identifyInProgress
       ELSE UNCHANGED << callers, identifyInProgress >>
    /\ UNCHANGED << analysisVars, budget, initialized, resolvedInit, globalStoragePath, discoveringInProgress,
                    discovering, searches, disk, searchCount >>

(***************************************************************************)
(* getToolsets (detectToolset.ts)                                          *)
(***************************************************************************)
Threw(f) == [f EXCEPT !.pc = "done", !.ret = "threw"]

\* A variant of the entry of getToolsets that throws until an initialize
\* call has completed.
CallGetToolsetsStrict(c) ==
    /\ MayCall(c, "getToolsets")
    /\ callers' = [callers EXCEPT ![c] =
            IF ~InitCompleted
            THEN Threw(Called(c, "getToolsets", NoArgs))
            ELSE [Called(c, "getToolsets", NoArgs) EXCEPT !.pc = "awaitInitialized", !.wait = initialized]]
    /\ UNCHANGED << analysisVars, budget, initialized, resolvedInit, globalStoragePath, registry, discoveringInProgress,
                    discovering, searches, runs, identifyInProgress, disk, writers, searchCount >>

\* getToolsets() is called.
CallGetToolsets(c) ==
    /\ MayCall(c, "getToolsets")
    /\ callers' = [callers EXCEPT ![c] =
            IF initialized = 0
            THEN Threw(Called(c, "getToolsets", NoArgs))
            ELSE [Called(c, "getToolsets", NoArgs) EXCEPT !.pc = "awaitInitialized", !.wait = initialized]]
    /\ UNCHANGED << analysisVars, budget, initialized, resolvedInit, globalStoragePath, registry, discoveringInProgress,
                    discovering, searches, runs, identifyInProgress, disk, writers, searchCount >>

\* `await initialized` of getToolsets returns; the definitions are iterated.
GetResume(c) ==
    /\ callers[c].op \in {"getToolsets", "identifyToolset"}
    /\ callers[c].pc = "awaitInitialized"
    /\ callers[c].wait \in resolvedInit
    /\ callers' = [callers EXCEPT ![c] = [@ EXCEPT !.pc = "definitions", !.i = 1]]
    /\ UNCHANGED << analysisVars, budget, initialized, resolvedInit, globalStoragePath, registry, discoveringInProgress,
                    discovering, searches, runs, identifyInProgress, disk, writers, searchCount >>

\* A variant of the loop of getToolsets that does not look into
\* discoveringInProgress before it starts a search.
GetDefinitionAlways(c) ==
    LET d == callers[c].i IN
    /\ callers[c].pc = "definitions"
    /\ IF d \in Defs
       THEN /\ callers' = [callers EXCEPT ![c].i = d + 1]
            /\ Len(searches) < MaxSearches
            /\ searches' = Append(searches, [def |-> d, pending |-> FinderResults(d), failed |-> FALSE])
            /\ discoveringInProgress' = [discoveringInProgress EXCEPT ![d] = Len(searches) + 1]
            /\ searchCount' = [searchCount EXCEPT ![d] = @ + 1]
            /\ UNCHANGED discovering
       ELSE LET all == {discoveringInProgress[x] : x \in Defs} \ {0} IN
            /\ discovering' = [set |-> TRUE, searches |-> all]
            /\ callers' = [callers EXCEPT ![c] = [@ EXCEPT !.pc = "awaitDiscovering", !.awaiting = all]]
            /\ UNCHANGED << discoveringInProgress, searches, searchCount >>
    /\ UNCHANGED << analysisVars, budget, initialized, resolvedInit, globalStoragePath, registry, runs,
                    identifyInProgress, disk, writers >>

\* One turn of the loop over loadCompilerDefinitions: a definition that is
\* not being searched gets a search; after the last definition `discovering`
\* becomes the Promise.all of the searches in progress.
GetDefinition(c) ==
    LET d == callers[c].i IN
    /\ callers[c].pc = "definitions"
    /\ IF d \in Defs
       THEN /\ callers' = [callers EXCEPT ![c].i = d + 1]
            /\ IF discoveringInProgress[d] # 0
               THEN UNCHANGED << discoveringInProgress, searches, searchCount >>
               ELSE /\ Len(searches) < MaxSearches
                    /\ searches' = Append(searches, [def |-> d, pending |-> FinderResults(d), failed |-> FALSE])
                    /\ discoveringInProgress' = [discoveringInProgress EXCEPT ![d] = Len(searches) + 1]
                    /\ searchCount' = [searchCount EXCEPT ![d] = @ + 1]
            /\ UNCHANGED discovering
       ELSE LET all == {discoveringInProgress[x] : x \in Defs} \ {0} IN
            /\ discovering' = [set |-> TRUE, searches |-> all]
            /\ callers' = [callers EXCEPT ![c] = [@ EXCEPT !.pc = "awaitDiscovering", !.awaiting = all]]
            /\ UNCHANGED << discoveringInProgress, searches, searchCount >>
    /\ UNCHANGED << analysisVars, budget, initialized, resolvedInit, globalStoragePath, registry, runs,
                    identifyInProgress, disk, writers >>

(***************************************************************************)
(* lookupToolset (detectToolset.ts)                                        *)
(***************************************************************************)
\* The regular expression of a pattern matches at the start of str.
RECURSIVE MatchHere(_, _)
MatchHere(pat, str) ==
    IF pat = <<>> THEN TRUE
    ELSE IF Head(pat) = "*"
         THEN \E k \in 0..Len(str) : MatchHere(Tail(pat), SubSeq(str, k + 1, Len(str)))
         ELSE str # <<>> /\ Head(str) = Head(pat) /\ MatchHere(Tail(pat), Tail(str))

\* rx.exec(toolset.name): the expression is not anchored.
RxExec(pat, str) == \E k \in 0..Len(str) : MatchHere(pat, SubSeq(str, k + 1, Len(str)))

\* The first toolset, by descending version and then insertion order, whose
\* name matches.
lookupToolset(reg, name) ==
    LET hits == {i \in 1..Len(reg) : RxExec(Tokens(name), ToolsetName(reg[i].ts))}
        best == {i \in hits : \A j \in hits :
                    \/ DefVersion(reg[i].ts.def) > DefVersion(reg[j].ts.def)
                    \/ DefVersion(reg[i].ts.def) = DefVersion(reg[j].ts.def) /\ i <= j}
    IN IF hits = {} THEN NoToolset ELSE reg[CHOOSE i \in best : TRUE].ts

\* `await discovering` returns: getToolsets returns the registry, and
\* identifyToolset its second lookup.
GetReturn(c) ==
    /\ callers[c].pc = "awaitDiscovering"
    /\ \A s \in callers[c].awaiting : SearchComplete(s)
    /\ callers' = [callers EXCEPT ![c] =
            IF @.op = "getToolsets"
            THEN [@ EXCEPT !.pc = "done", !.ret = "registry"]
            ELSE Returned(@, lookupToolset(registry, @.args.cand))]
    /\ UNCHANGED << analysisVars, budget, initialized, resolvedInit, globalStoragePath, registry, discoveringInProgress,
                    discovering, searches, runs, identifyInProgress, disk, writers, searchCount >>

\* `await discovering` throws: the Promise.all is rejected with the reason
\* of a search that was rejected.
GetThrows(c) ==
    /\ callers[c].pc = "awaitDiscovering"
    /\ \E s \in callers[c].awaiting : searches[s].failed
    /\ callers' = [callers EXCEPT ![c] = Threw(@)]
    /\ UNCHANGED << analysisVars, budget, initialized, resolvedInit, globalStoragePath, registry, discoveringInProgress,
                    discovering, searches, runs, identifyInProgress, disk, writers, searchCount >>

(***************************************************************************)
(* identifyToolset and identify (detectToolset.ts)                         *)
(***************************************************************************)
\* identifyToolset(candidate) is called.
CallIdentifyToolset(c) ==
    /\ MayCall(c, "identifyToolset")
    /\ \E cand \in budget.candidates :
        LET f == Called(c, "identifyToolset", [NoArgs EXCEPT !.cand = cand])
            known == RegGet(registry, cand)
        IN
        IF initialized = 0
        THEN callers' = [callers EXCEPT ![c] = Threw(f)] /\ UNCHANGED identifyInProgress
        ELSE IF known # NoToolset
        THEN callers' = [callers EXCEPT ![c] = Returned(f, known)] /\ UNCHANGED identifyInProgress
        ELSE IF identifyInProgress[cand].present
        THEN callers' = [callers EXCEPT ![c] = [f EXCEPT !.pc = "awaitInProgress"]] /\ UNCHANGED identifyInProgress
        ELSE /\ identifyInProgress' = [identifyInProgress EXCEPT ![cand] = Unresolved]
             /\ callers' = [callers EXCEPT ![c] = [f EXCEPT !.pc = "info"]]
    /\ UNCHANGED << analysisVars, budget, initialized, resolvedInit, globalStoragePath, registry, discoveringInProgress,
                    discovering, searches, runs, disk, writers, searchCount >>

\* The promise taken from identifyInProgress is resolved.
IdentifyShared(c) ==
    /\ callers[c].pc = "awaitInProgress"
    /\ identifyInProgress[callers[c].args.cand].resolved
    /\ callers' = [callers EXCEPT ![c] = Returned(@, identifyInProgress[callers[c].args.cand].value)]
    /\ UNCHANGED << analysisVars, budget, initialized, resolvedInit, globalStoragePath, registry, discoveringInProgress,
                    discovering, searches, runs, identifyInProgress, disk, writers, searchCount >>

\* filepath.info(candidate) returns.
IdentifyInfo(c) ==
    LET cand == callers[c].args.cand IN
    /\ callers[c].pc = "info"
    /\ IF ~IsFile(cand)
       THEN callers' = [callers EXCEPT ![c] = [@ EXCEPT !.pc = "awaitInitialized2", !.wait = initialized]]
            /\ UNCHANGED identifyInProgress
       ELSE IF IsExecutable(cand)
       THEN callers' = [callers EXCEPT ![c] = [@ EXCEPT !.pc = "identify", !.i = 1]]
            /\ UNCHANGED identifyInProgress
       ELSE /\ identifyInProgress' = [identifyInProgress EXCEPT ![cand] = Resolved(NoToolset)]
            /\ callers' = [callers EXCEPT ![c] = Returned(@, NoToolset)]
    /\ UNCHANGED << analysisVars, budget, initialized, resolvedInit, globalStoragePath, registry, discoveringInProgress,
                    discovering, searches, runs, disk, writers, searchCount >>

\* A name: `await initialized` returns, the first lookup is made, and
\* without a match discovery is awaited (or getToolsets called).
IdentifyLookup(c) ==
    LET found == lookupToolset(registry, callers[c].args.cand) IN
    /\ callers[c].pc = "awaitInitialized2"
    /\ callers[c].wait \in resolvedInit
    /\ callers' = [callers EXCEPT ![c] =
            IF found # NoToolset
            THEN Returned(@, found)
            ELSE IF discovering.set
            THEN [@ EXCEPT !.pc = "awaitDiscovering", !.awaiting = discovering.searches]
            ELSE [@ EXCEPT !.pc = "awaitInitialized", !.wait = initialized]]
    /\ UNCHANGED << analysisVars, budget, initialized, resolvedInit, globalStoragePath, registry, discoveringInProgress,
                    discovering, searches, runs, identifyInProgress, disk, writers, searchCount >>

\* One turn of the loop of identify over the definitions: discover is
\* called for a definition that names the binary.
IdentifyDefinition(c) ==
    LET d == callers[c].i
        cand == callers[c].args.cand
        known == RegGet(registry, DiscoverPath(cand))
    IN
    /\ callers[c].pc = "identify"
    /\ IF d \notin Defs
       THEN \* no definition identified it
            /\ callers' = [callers EXCEPT ![c] = Returned(@, NoToolset)]
            /\ identifyInProgress' = [identifyInProgress EXCEPT ![cand] = Resolved(NoToolset)]
            /\ UNCHANGED runs
       ELSE IF basename(cand) \notin Binary(d)
       THEN /\ callers' = [callers EXCEPT ![c].i = d + 1]
            /\ UNCHANGED << identifyInProgress, runs >>
       ELSE IF known # NoToolset
       THEN \* discover returns the registered toolset
            /\ callers' = [callers EXCEPT ![c] = Returned(@, known)]
            /\ identifyInProgress' = [identifyInProgress EXCEPT ![cand] = Resolved(known)]
            /\ UNCHANGED runs
       ELSE /\ runs' = runs \cup {[kind |-> "identify", owner |-> c, def |-> d, path |-> DiscoverPath(cand)]}
            /\ callers' = [callers EXCEPT ![c].pc = "awaitDiscover"]
            /\ UNCHANGED identifyInProgress
    /\ UNCHANGED << analysisVars, budget, initialized, resolvedInit, globalStoragePath, registry, discoveringInProgress,
                    discovering, searches, disk, writers, searchCount >>

(***************************************************************************)
(* The earlier facade: Detection/compiler-detection.ts                     *)
(***************************************************************************)
MaxLegacyIdentifyCalls == 3   \* calls of identifyToolset in SpecLegacy

\* A spelling with backslashes; on this host it names no file.
Backslashed == {".\\cc"}

\* normalizePath: backslashes become forward slashes.
normalizePath(path) == IF path = ".\\cc" THEN "./cc" ELSE path

\* nativePath: path.resolve.
nativePath(path) == resolve(path)

\* identifyToolset(candidate, configurationFolders) is called and awaits
\* path.info(candidate).
LegacyCallIdentifyToolset(c) ==
    /\ MayCall(c, "identifyToolset")
    /\ \E cand \in budget.candidates :
        callers' = [callers EXCEPT ![c] =
            [Called(c, "identifyToolset", [NoArgs EXCEPT !.cand = cand]) EXCEPT !.pc = "legacyInfo"]]
    /\ UNCHANGED << analysisVars, budget, initialized, resolvedInit, globalStoragePath, registry, discoveringInProgress,
                    discovering, searches, runs, identifyInProgress, disk, writers, searchCount >>

\* path.info returns; the loop over the definitions begins.
LegacyIdentifyInfo(c) ==
    /\ callers[c].pc = "legacyInfo"
    /\ callers' = [callers EXCEPT ![c] = [@ EXCEPT !.pc = "legacyIdentify", !.i = 1]]
    /\ UNCHANGED << analysisVars, budget, initialized, resolvedInit, globalStoragePath, registry, discoveringInProgress,
                    discovering, searches, runs, identifyInProgress, disk, writers, searchCount >>

\* One turn of the loop: for an executable that the definition names,
\* discover is called; it looks the normalized path up in discoveredToolsets.
LegacyIdentifyDefinition(c) ==
    LET d == callers[c].i
        cand == callers[c].args.cand
        compilerPath == normalizePath(cand)
        known == RegGet(registry, compilerPath)
    IN
    /\ callers[c].pc = "legacyIdentify"
    /\ IF d \notin Defs
       THEN /\ callers' = [callers EXCEPT ![c] = Returned(@, NoToolset)]
            /\ UNCHANGED runs
       ELSE IF ~(IsExecutable(cand) /\ basename(cand) \in Binary(d))
       THEN /\ callers' = [callers EXCEPT ![c].i = d + 1]
            /\ UNCHANGED runs
       ELSE IF known # NoToolset
       THEN /\ callers' = [callers EXCEPT ![c] = Returned(@, known)]
            /\ UNCHANGED runs
       ELSE /\ runs' = runs \cup {[kind |-> "legacy", owner |-> c, def |-> d, path |-> compilerPath]}
            /\ callers' = [callers EXCEPT ![c].pc = "legacyDiscover"]
    /\ UNCHANGED << analysisVars, budget, initialized, resolvedInit, globalStoragePath, registry, discoveringInProgress,
                    discovering, searches, identifyInProgress, disk, writers, searchCount >>

\* The verification ends: the toolset, constructed with the native path, is
\* set under the normalized path and returned; or the next definition is
\* tried.
LegacyDiscoverFinish(r) ==
    LET ok == Verifies(r.def, nativePath(r.path))
        ts == Toolset(nativePath(r.path), r.def, <<r.kind, r.owner>>)
        c == r.owner
    IN
    /\ r.kind = "legacy"
    /\ runs' = runs \ {r}
    /\ IF ok
       THEN /\ registry' = RegSet(registry, r.path, ts)
            /\ callers' = [callers EXCEPT ![c] = Returned(@, ts)]
       ELSE /\ callers' = [callers EXCEPT ![c] = [@ EXCEPT !.pc = "legacyIdentify", !.i = @ + 1]]
            /\ UNCHANGED registry
    /\ UNCHANGED << analysisVars, budget, initialized, resolvedInit, globalStoragePath, discoveringInProgress,
                    discovering, searches, identifyInProgress, disk, writers, searchCount >>

(***************************************************************************)
(* Part II.  Toolset.getIntellisenseConfiguration (Service/toolset.ts) of  *)
(* one toolset, with mergeObjects (Service/worker.ts).  A string is the    *)
(* sequence of its tokens, so that joining, formatting and matching are    *)
(* operations on strings.                                                  *)
(***************************************************************************)
MaxArgs == 2             \* arguments in one command line
MaxAnalysisCalls == 3    \* calls of getIntellisenseConfiguration in SpecAnalysis

\* The arguments a caller may put on the command line.
Arguments == { <<"-D", "X", "=", "1">>, <<"-c">> }
Argvs == UNION {[1..n -> Arguments] : n \in 0..MaxArgs}

\* Array.join(' ')
RECURSIVE join(_)
join(strs) ==
    IF strs = <<>> THEN <<>>
    ELSE IF Len(strs) = 1 THEN strs[1]
    ELSE strs[1] \o <<" ">> \o join(Tail(strs))

\* `const cacheKey = compilerArgs.join(' ')`
cacheKey(compilerArgs) == join(compilerArgs)
CacheKeys == {cacheKey(a) : a \in Argvs}

\* The values of a configuration: an array or undefined, an object (its
\* entries in insertion order) or undefined.
NoArray == [isArray |-> FALSE, items |-> <<>>]
Array(items) == [isArray |-> TRUE, items |-> items]
NoObject == [present |-> FALSE, entries |-> <<>>]
Object(entries) == [present |-> TRUE, entries |-> entries]
Macro(k, v) == [k |-> k, v |-> v]

\* A string that is undefined.
NoString == <<>>

\* The keys of `include` that hold lists of paths.
IncludeKeys == {"paths", "builtInPaths", "systemPaths", "externalPaths", "environmentPaths"}

\* A DeepPartial<IntelliSenseConfiguration>: compilerPath, macros,
\* parserArguments and the lists of `include`.
Fragment(macros, parserArguments, paths) ==
    [compilerPath |-> NoString, macros |-> macros, parserArguments |-> parserArguments, paths |-> paths,
     builtInPaths |-> NoArray, systemPaths |-> NoArray, externalPaths |-> NoArray, environmentPaths |-> NoArray]
EmptyFragment == Fragment(NoObject, NoArray, NoArray)

\* The named groups of a match.
Captures(key, value) == [key |-> key, value |-> value]
NoCaptures == Captures(<<>>, <<>>)

\* render(template, data, resolver): the placeholders are replaced by the
\* data; other tokens stay.
RECURSIVE render(_, _)
render(str, data) ==
    IF str = <<>> THEN <<>>
    ELSE (IF Head(str) = "${key}" THEN data.key
          ELSE IF Head(str) = "${value}" THEN data.value
          ELSE << Head(str) >>) \o render(Tail(str), data)

\* recursiveRender(value, data, resolver): every string of the structure is
\* rendered, into a new structure.
recursiveRender(f, data) ==
    LET m == f.macros.entries
        RenderItems(a) == [a EXCEPT !.items = [i \in 1..Len(a.items) |-> render(a.items[i], data)]]
    IN [k \in DOMAIN f |->
            IF k = "compilerPath" THEN render(f[k], data)
            ELSE IF k = "macros"
            THEN [f[k] EXCEPT !.entries = [i \in 1..Len(m) |-> Macro(render(m[i].k, data), render(m[i].v, data))]]
            ELSE RenderItems(f[k])]

\* mergeObjects on an object of strings: a new key is appended, the value
\* of an existing key is replaced.
RECURSIVE MergeEntries(_, _)
MergeEntries(target, entries) ==
    IF entries = <<>> THEN target
    ELSE LET e == Head(entries)
             merged == IF \E i \in 1..Len(target) : target[i].k = e.k
                       THEN [i \in 1..Len(target) |-> IF target[i].k = e.k THEN e ELSE target[i]]
                       ELSE Append(target, e)
         IN MergeEntries(merged, Tail(entries))

\* mergeObjects for a key that holds an object: an undefined target gets a
\* clone of the value, else the objects are merged.
MergeObject(target, value) ==
    IF ~value.present THEN target
    ELSE IF ~target.present THEN value
    ELSE Object(MergeEntries(target.entries, value.entries))

\* mergeObjects for a key that holds an array: an undefined target gets a
\* clone of the value, else the items are pushed.
MergeArray(target, value) ==
    IF ~value.isArray THEN target
    ELSE IF ~target.isArray THEN value
    ELSE Array(target.items \o value.items)

\* mergeObjects(input, dataToMerge); the keys of the fragments of this model
\* carry no `remove:` or `prepend:` prefix.
mergeObjects(target, data) ==
    [k \in DOMAIN target |->
        IF k \notin DOMAIN data THEN target[k]
        ELSE IF k = "compilerPath" THEN (IF data[k] = NoString THEN target[k] ELSE data[k])
        ELSE IF k = "macros" THEN MergeObject(target[k], data[k])
        ELSE MergeArray(target[k], data[k])]

\* Toolset.applyToConfiguration
applyToConfiguration(config, partial, data) == mergeObjects(config, recursiveRender(partial, data))

\* filepath.exists: the path when it is there, else undefined.
Exists(p) == p # <<"/missing">>
ExistingPath(p) == IF Exists(p) THEN p ELSE NoString

\* [...new Set(values)]
RECURSIVE Unique(_)
Unique(s) ==
    IF s = <<>> THEN <<>>
    ELSE LET init == Unique(SubSeq(s, 1, Len(s) - 1))
             last == s[Len(s)]
         IN IF \E i \in 1..Len(init) : init[i] = last THEN init ELSE Append(init, last)

\* Toolset.ensurePathsAreLegit: a string (the strings of this model hold
\* no path delimiter) becomes `exists(value) || value`; a list keeps its
\* existing paths, once each.
ensurePathsAreLegit(obj) ==
    [k \in DOMAIN obj |->
        IF k = "compilerPath"
        THEN (IF obj[k] # NoString /\ ExistingPath(obj[k]) # NoString THEN ExistingPath(obj[k]) ELSE obj[k])
        ELSE IF k \in IncludeKeys /\ obj[k].isArray
        THEN Array(SelectSeq(Unique([i \in 1..Len(obj[k].items) |-> ExistingPath(obj[k].items[i])]),
                             LAMBDA e : e # NoString))
        ELSE obj[k]]

\* The arguments postProcessIntellisense makes of the macros and of
\* include.paths.
RECURSIVE MacroArgs(_)
MacroArgs(entries) ==
    IF entries = <<>> THEN <<>>
    ELSE << <<"-D">> \o Head(entries).k \o <<"=">> \o Head(entries).v >> \o MacroArgs(Tail(entries))

RECURSIVE BuiltInArgs(_)
BuiltInArgs(paths) ==
    IF paths = <<>> THEN <<>>
    ELSE << <<"-I">> \o Head(paths) >> \o BuiltInArgs(Tail(paths))

RECURSIVE SysIncludeArgs(_)
SysIncludeArgs(paths) ==
    IF paths = <<>> THEN <<>>
    ELSE << <<"--sys_include">>, Head(paths) >> \o SysIncludeArgs(Tail(paths))

RECURSIVE IncludeArgs(_)
IncludeArgs(paths) ==
    IF paths = <<>> THEN <<>>
    ELSE << <<"--include_directory">>, Head(paths) >> \o IncludeArgs(Tail(paths))

\* postProcessIntellisense with the include paths pushed before the system
\* paths.
postProcessIntellisenseIncludeFirst(c) ==
    LET args == MacroArgs(c.macros.entries)
                \o BuiltInArgs(c.builtInPaths.items)
                \o IncludeArgs(c.paths.items) \o IncludeArgs(c.environmentPaths.items)
                \o SysIncludeArgs(c.systemPaths.items) \o SysIncludeArgs(c.externalPaths.items)
    IN [c EXCEPT !.parserArguments = IF @.isArray THEN Array(@.items \o args) ELSE @]

\* Toolset.postProcessIntellisense: the arguments are pushed when
\* parserArguments is an array.
postProcessIntellisense(c) ==
    LET args == MacroArgs(c.macros.entries)
                \o BuiltInArgs(c.builtInPaths.items)
                \o SysIncludeArgs(c.systemPaths.items) \o SysIncludeArgs(c.externalPaths.items)
                \o IncludeArgs(c.paths.items) \o IncludeArgs(c.environmentPaths.items)
    IN [c EXCEPT !.parserArguments = IF @.isArray THEN Array(@.items \o args) ELSE @]

\* The toolset under analysis and `definition.analysis` after getActions:
\* a command entry `-D${keyEqualsValue}` and a query of the compiler.
CompilerPath == <<"/bin/cc">>
CommandFragment == Fragment(Object(<< Macro(<<"${key}">>, <<"${value}">>) >>), NoArray, NoArray)
QueryFragment == Fragment(Object(<< Macro(<<"__VERSION__">>, <<"${value}">>) >>), NoArray, NoArray)
\* What the compiler prints for the query command.
CompilerOutput == <<"version", " ", "9">>

\* /^-D(?<key>[^=]+)=(?<value>.+)$/.exec(arg)
ExecDefine(arg) ==
    LET eqs == {j \in 3..(Len(arg) - 1) : arg[j] = "=" /\ \A i \in 2..(j - 1) : arg[i] # "="}
    IN IF Len(arg) >= 4 /\ arg[1] = "-D" /\ eqs # {}
       THEN LET j == CHOOSE x \in eqs : TRUE
            IN [matched |-> TRUE, data |-> Captures(SubSeq(arg, 2, j - 1), SubSeq(arg, j + 1, Len(arg)))]
       ELSE [matched |-> FALSE, data |-> NoCaptures]

\* text.matchAll(/version (?<value>.+)/gm)
ExecVersion(text) ==
    IF Len(text) >= 3 /\ text[1] = "version" /\ text[2] = " "
    THEN [matched |-> TRUE, data |-> Captures(<<>>, SubSeq(text, 3, Len(text)))]
    ELSE [matched |-> FALSE, data |-> NoCaptures]

\* The entries of a command block: the regular expressions of a key
\* (split at `;`) and the fragment. `-D${keyEqualsValue}` is one
\* expression; `-I;(?<value>.+)` is a chain of two.
DefineEntry == [rxes |-> << "-D${keyEqualsValue}" >>, isense |-> CommandFragment]
IncludeEntry == [rxes |-> << "-I", "(?<value>.+)" >>,
                 isense |-> Fragment(NoObject, NoArray, Array(<< <<"${value}">> >>))]
CommandBlock == << DefineEntry >>

\* commandLineArgs[index]; RegExp.exec turns an argument that is not there
\* into the string "undefined".
ArgAt(commandLineArgs, index) ==
    IF index <= Len(commandLineArgs) THEN commandLineArgs[index] ELSE <<"undefined">>

\* rx.exec(arg) for the expressions of the entries.
Exec(rx, arg) ==
    IF rx = "-D${keyEqualsValue}" THEN ExecDefine(arg)
    ELSE IF rx = "-I" THEN [matched |-> arg = <<"-I">>, data |-> NoCaptures]
    ELSE [matched |-> arg # <<>>, data |-> Captures(<<>>, arg)]

\* mergeObjects(capturedData, result.groups)
MergeCaptures(capturedData, groups) ==
    Captures(IF groups.key # <<>> THEN groups.key ELSE capturedData.key,
             IF groups.value # <<>> THEN groups.value ELSE capturedData.value)

\* engineeredRegexSet.map((rx, index) => rx.exec(commandLineArgs[index])),
\* and the loop over the results.
RECURSIVE ExecChain(_, _, _, _)
ExecChain(engineeredRegexSet, commandLineArgs, index, capturedData) ==
    IF index > Len(engineeredRegexSet) THEN [matched |-> TRUE, data |-> capturedData]
    ELSE LET result == Exec(engineeredRegexSet[index], ArgAt(commandLineArgs, index))
         IN IF ~result.matched THEN [matched |-> FALSE, data |-> NoCaptures]
            ELSE ExecChain(engineeredRegexSet, commandLineArgs, index + 1, MergeCaptures(capturedData, result.data))

\* The first entry of the block whose expressions all match: 0 = none.
FirstMatch(block, commandLineArgs) ==
    LET hits == {n \in 1..Len(block) : ExecChain(block[n].rxes, commandLineArgs, 1, NoCaptures).matched}
    IN IF hits = {} THEN 0 ELSE CHOOSE n \in hits : \A m \in hits : n <= m

\* Toolset.processComamndLineArgs: the arguments of a match are applied
\* and spliced off, and kept under no_consume; an argument no entry
\* matches is kept.
RECURSIVE processComamndLineArgs(_, _, _, _, _)
processComamndLineArgs(block, commandLineArgs, config, no_consume, keptArgs) ==
    IF commandLineArgs = <<>>
    THEN [keptArgs |-> keptArgs, config |-> config]
    ELSE LET n == FirstMatch(block, commandLineArgs) IN
         IF n # 0
         THEN LET m == ExecChain(block[n].rxes, commandLineArgs, 1, NoCaptures)
                  used == IF Len(block[n].rxes) < Len(commandLineArgs) THEN Len(block[n].rxes) ELSE Len(commandLineArgs)
                  usedArgs == SubSeq(commandLineArgs, 1, used)
              IN processComamndLineArgs(block, SubSeq(commandLineArgs, used + 1, Len(commandLineArgs)),
                                        applyToConfiguration(config, block[n].isense, m.data), no_consume,
                                        IF no_consume THEN keptArgs \o usedArgs ELSE keptArgs)
         ELSE processComamndLineArgs(block, Tail(commandLineArgs), config, no_consume,
                                     Append(keptArgs, Head(commandLineArgs)))

\* The loop of Toolset.query over the queries, once the text is there.
ApplyQueries(config, text) ==
    LET m == ExecVersion(text)
    IN IF m.matched THEN applyToConfiguration(config, QueryFragment, m.data) ELSE config

\* options.userIntellisenseConfiguration
NoUser == [given |-> FALSE, value |-> EmptyFragment]
User(f) == [given |-> TRUE, value |-> f]
UserConfigurations ==
    { NoUser,
      User([Fragment(Object(<< Macro(<<"U">>, <<"1">>) >>), NoArray, NoArray) EXCEPT !.compilerPath = <<"/missing">>]),
      User(Fragment(NoObject, Array(<< <<"-u">> >>), Array(<< <<"/inc">>, <<"/missing">> >>))) }

\* definition.intellisense as the definition file may give it; the
\* constructor makes an absent block the empty object.
IntellisenseBlocks ==
    { Fragment(Object(<< Macro(<<"__GNUC__">>, <<"9">>) >>), Array(<<>>), NoArray),
      EmptyFragment }

NoConfig == EmptyFragment

\* `{...this.definition.intellisense, ...}` copies the block one level
\* deep: the objects and arrays of the block are the ones of the new
\* configuration.
Shared(block) ==
    [macros |-> block.macros.present,
     parserArguments |-> block.parserArguments.isArray,
     paths |-> block.paths.isArray]
NothingShared == [macros |-> FALSE, parserArguments |-> FALSE, paths |-> FALSE]

\* What is written into a shared object is written into the definition.
WriteBack(shared, config) ==
    [intellisense EXCEPT !.macros = IF shared.macros THEN config.macros ELSE @,
                         !.parserArguments = IF shared.parserArguments THEN config.parserArguments ELSE @,
                         !.paths = IF shared.paths THEN config.paths ELSE @]

\* The configuration of a call in flight, read through what it shares.
View(f) ==
    [f.config EXCEPT !.macros = IF f.shared.macros THEN intellisense.macros ELSE @,
                     !.parserArguments = IF f.shared.parserArguments THEN intellisense.parserArguments ELSE @,
                     !.paths = IF f.shared.paths THEN intellisense.paths ELSE @]

\* A call of getIntellisenseConfiguration; `after` is history: the calls
\* that had returned when this one was made.
AnalysisCall(argv, user) ==
    [argv |-> argv, user |-> user, pc |-> "called", shared |-> NothingShared, config |-> NoConfig,
     hit |-> FALSE, spawned |-> 0, result |-> NoConfig,
     after |-> {i \in 1..Len(analyses) : analyses[i].pc = "done"}]

\* getIntellisenseConfiguration from the end of the analysis phase on:
\* the paths are validated, the configuration is rendered and cached, and
\* a structured clone of it gets the user's settings and the parser
\* arguments and is returned.
FinishAnalysis(i, f, config) ==
    LET legit == ensurePathsAreLegit(config)
        rendered == recursiveRender(legit, NoCaptures)
        merged == IF f.user.given
                  THEN ensurePathsAreLegit(applyToConfiguration(rendered, f.user.value, NoCaptures))
                  ELSE rendered
        done == [f EXCEPT !.pc = "done", !.config = NoConfig, !.result = postProcessIntellisense(merged)]
    IN
    /\ intellisense' = WriteBack(f.shared, legit)
    /\ cachedAnalysis' = [cachedAnalysis EXCEPT ![cacheKey(f.argv)] = [present |-> TRUE, value |-> rendered]]
    /\ analyses' = IF i > Len(analyses) THEN Append(analyses, done) ELSE [analyses EXCEPT ![i] = done]
    /\ writers' = SpawnWriter(writers, globalStoragePath)

\* getIntellisenseConfiguration(compilerArgs, options) is called: a cached
\* configuration gets the user's settings and is returned; else the
\* analysis runs, up to the spawn of the compiler when the query has no
\* cached text.
CallGetIntellisenseConfiguration ==
    /\ Len(analyses) < MaxAnalysisCalls
    /\ \E argv \in Argvs, user \in UserConfigurations :
        LET cached == cachedAnalysis[cacheKey(argv)]
            call == AnalysisCall(argv, user)
        IN
        IF cached.present
        THEN LET found == IF user.given
                          THEN ensurePathsAreLegit(applyToConfiguration(cached.value, user.value, NoCaptures))
                          ELSE cached.value
             IN /\ cachedAnalysis' = [cachedAnalysis EXCEPT ![cacheKey(argv)].value = found]
                /\ analyses' = Append(analyses, [call EXCEPT !.pc = "done", !.hit = TRUE, !.result = found])
                /\ UNCHANGED << intellisense, cachedQueries, spawns, writers >>
        ELSE LET seed == [intellisense EXCEPT !.compilerPath = CompilerPath]
                 cmd == processComamndLineArgs(CommandBlock, argv, seed, FALSE, <<>>)
                 f == [call EXCEPT !.shared = Shared(intellisense), !.config = cmd.config]
             IN IF cachedQueries.present
                THEN /\ FinishAnalysis(Len(analyses) + 1, f, ApplyQueries(cmd.config, cachedQueries.text))
                     /\ UNCHANGED << cachedQueries, spawns >>
                ELSE /\ intellisense' = WriteBack(f.shared, cmd.config)
                     /\ analyses' = Append(analyses, [f EXCEPT !.pc = "query", !.spawned = 1])
                     /\ spawns' = spawns + 1
                     /\ UNCHANGED << cachedAnalysis, cachedQueries, writers >>
    /\ UNCHANGED << budget, initialized, resolvedInit, globalStoragePath, registry, discoveringInProgress,
                    discovering, searches, runs, identifyInProgress, disk, callers, searchCount, evaluation >>

\* The compiler spawned by Toolset.query exits: the text is cached, the
\* queries are applied, and the call runs to its end.
QueryReturns(i) ==
    LET f == analyses[i] IN
    /\ f.pc = "query"
    /\ cachedQueries' = [present |-> TRUE, text |-> CompilerOutput]
    /\ FinishAnalysis(i, f, ApplyQueries(View(f), CompilerOutput))
    /\ UNCHANGED spawns
    /\ UNCHANGED << budget, initialized, resolvedInit, globalStoragePath, registry, discoveringInProgress,
                    discovering, searches, runs, identifyInProgress, disk, callers, searchCount, evaluation >>

(***************************************************************************)
(* The analysis phase of getIntellisenseConfiguration on its own: the      *)
(* entries of `definition.analysis`, their flags and their order.          *)
(***************************************************************************)
\* A flag that a key does not carry.
NoFlag == ""
\* `priority=<value>` of a key.
Priorities == {NoFlag, "0", "1"}
\* The language flag of a key, and options.language.
LanguageFlags == {NoFlag, "c", "cpp", "c++"}
Languages == {"undefined", "c", "cpp", "c++"}

\* parseInt of a string of one digit.
parseInt(str) == CHOOSE n \in 0..9 : ToString(n) = str

isC(language) == language = "c"
isCpp(language) == language = "cpp" \/ language = "c++"

\* A key of `definition.analysis` with its flags; the block of a command
\* is the `-D` entry, the block of an expression is `macros.X` with the
\* fragment that defines E.
ActionKey(action, priority, language) ==
    [action |-> action, flags |-> [priority |-> priority, language |-> language]]
ActionKeys ==
    {ActionKey(a, p, l) : a \in {"command", "expression"}, p \in Priorities, l \in LanguageFlags}
\* The blocks `definition.analysis` is drawn from.
MaxActions == 2
AnalysisBlocks == UNION {[1..n -> ActionKeys] : n \in 1..MaxActions}

\* flags.get(key)
FlagsGet(flags, key) == flags.language = key

\* Array.prototype.sort with (a, b) => a.priority - b.priority: stable.
RECURSIVE InsertByPriority(_, _)
InsertByPriority(e, sorted) ==
    IF sorted = <<>> THEN << e >>
    ELSE IF e.priority < Head(sorted).priority THEN << e >> \o sorted
    ELSE << Head(sorted) >> \o InsertByPriority(e, Tail(sorted))

RECURSIVE SortByPriority(_)
SortByPriority(seq) ==
    IF seq = <<>> THEN <<>>
    ELSE InsertByPriority(seq[Len(seq)], SortByPriority(SubSeq(seq, 1, Len(seq) - 1)))

\* getActions: `source` is history, the place of the key in the block.
getActions(obj) ==
    LET mapped == [n \in 1..Len(obj) |->
                    LET given == IF obj[n].flags.priority = NoFlag THEN "0" ELSE obj[n].flags.priority
                        ndx == n - 1
                    IN [action |-> obj[n].action, flags |-> obj[n].flags, source |-> n,
                        priority |-> IF parseInt(given) # 0 THEN parseInt(given) ELSE ndx]]
    IN SelectSeq(SortByPriority(mapped), LAMBDA e : e.action # "")

\* intellisenseConfiguration[name]
Property(config, name) == IF name \in DOMAIN config THEN config[name] ELSE "undefined"

\* evaluateExpression("macros.X", data): X is defined in the macros.
ExpressionFragment == Fragment(Object(<< Macro(<<"E">>, <<"1">>) >>), NoArray, NoArray)
evaluateExpression(data) == \E n \in 1..Len(data.macros.entries) : data.macros.entries[n].k = <<"X">>

\* The command line of the analysis phases.
PhaseArgv == << <<"-D", "X", "=", "1">> >>

\* getIntellisenseConfiguration up to the loop over the entries.
BeginAnalysisPhase ==
    /\ evaluation.fn = "analysis" /\ evaluation.pc = "called"
    /\ \E language \in Languages :
        evaluation' = [evaluation EXCEPT
            !.pc = "entries",
            !.language = language,
            !.config = [language |-> language] @@ [EmptyFragment EXCEPT !.compilerPath = CompilerPath],
            !.compilerArgs = PhaseArgv,
            !.entries = getActions(evaluation.analysis)]
    /\ UNCHANGED << facadeVars, intellisense, cachedAnalysis, cachedQueries, spawns, analyses >>

\* One turn of the loop over the entries: the language filters, then the
\* action. `executed` is history: the entries that reached the switch,
\* with the macros each one saw and left.
RunAction ==
    /\ evaluation.fn = "analysis" /\ evaluation.pc = "entries" /\ evaluation.entries # <<>>
    /\ LET e == Head(evaluation.entries)
           config == evaluation.config
           lanugage == Property(config, "lanugage")
           skip == \/ FlagsGet(e.flags, "c") /\ ~isC(lanugage)
                   \/ (FlagsGet(e.flags, "cpp") \/ (FlagsGet(e.flags, "c++") /\ ~isCpp(lanugage)))
           cmd == processComamndLineArgs(CommandBlock, evaluation.compilerArgs, config, FALSE, <<>>)
           after == IF e.action = "command" THEN cmd.config
                    ELSE IF evaluateExpression(config) THEN applyToConfiguration(config, ExpressionFragment, NoCaptures)
                    ELSE config
       IN evaluation' =
            IF skip THEN [evaluation EXCEPT !.entries = Tail(@)]
            ELSE [evaluation EXCEPT
                    !.entries = Tail(@),
                    !.config = after,
                    !.compilerArgs = IF e.action = "command" THEN cmd.keptArgs ELSE @,
                    !.executed = Append(@, [source |-> e.source, saw |-> config.macros, left |-> after.macros])]
    /\ UNCHANGED << facadeVars, intellisense, cachedAnalysis, cachedQueries, spawns, analyses >>

(***************************************************************************)
(* processComamndLineArgs on its own, for every command line of up to      *)
(* MaxArgs arguments.                                                       *)
(***************************************************************************)
CommandBlocks == { << DefineEntry >>, << IncludeEntry >>, << DefineEntry, IncludeEntry >> }
CommandArguments == Arguments \cup { <<"-I">>, <<"/inc">> }
CommandArgvs == UNION {[1..n -> CommandArguments] : n \in 0..MaxArgs}

\* `compilerArgs = await this.processComamndLineArgs(block, compilerArgs,
\* intellisenseConfiguration, flags)`
ProcessCommandLine ==
    /\ evaluation.fn = "processComamndLineArgs" /\ evaluation.pc = "called"
    /\ LET r == processComamndLineArgs(evaluation.block, evaluation.commandLineArgs,
                                       [EmptyFragment EXCEPT !.compilerPath = CompilerPath],
                                       evaluation.no_consume, <<>>)
       IN evaluation' = [evaluation EXCEPT !.pc = "done", !.compilerArgs = r.keptArgs, !.config = r.config]
    /\ UNCHANGED << facadeVars, intellisense, cachedAnalysis, cachedQueries, spawns, analyses >>

(***************************************************************************)
(* postProcessIntellisense on its own, for configurations of up to         *)
(* MaxMacros macros and MaxPaths paths in each list.                        *)
(***************************************************************************)
MaxMacros == 2
MaxPaths == 2
\* The macros A, B, ... and the paths /<list>/1, /<list>/2, ...
MacroObjects ==
    {NoObject} \cup {Object([i \in 1..n |-> Macro(<< <<"A">>, <<"B">>, <<"C">>, <<"D">> >>[i], << ToString(i) >>)]) : n \in 0..MaxMacros}
PathLists(key) ==
    {NoArray} \cup {Array([i \in 1..n |-> << "/", key, "/", ToString(i) >>]) : n \in 1..MaxPaths}
ParserArguments == {NoArray, Array(<<>>), Array(<< <<"-u">> >>)}
PostProcessInputs ==
    {[compilerPath |-> CompilerPath, macros |-> m, parserArguments |-> a, paths |-> p, builtInPaths |-> b,
      systemPaths |-> sp, externalPaths |-> x, environmentPaths |-> e] :
        m \in MacroObjects, a \in ParserArguments, p \in PathLists("paths"), b \in PathLists("builtInPaths"),
        sp \in PathLists("systemPaths"), x \in PathLists("externalPaths"), e \in PathLists("environmentPaths")}

\* `this.postProcessIntellisense(intellisenseConfiguration)`
PostProcess ==
    /\ evaluation.fn = "postProcessIntellisense" /\ evaluation.pc = "called"
    /\ evaluation' = [evaluation EXCEPT !.pc = "done", !.result = postProcessIntellisense(evaluation.intellisense)]
    /\ UNCHANGED << facadeVars, intellisense, cachedAnalysis, cachedQueries, spawns, analyses >>

(***************************************************************************)
(* mergeObjects of worker.ts on documents: a value is undefined, null, a   *)
(* string, an array or an object over the keys `a` and `o`.                *)
(***************************************************************************)
Undefined == [t |-> "undefined"]
Null == [t |-> "null"]
Str(v) == [t |-> "string", v |-> v]
Arr(v) == [t |-> "array", v |-> v]
Obj(v) == [t |-> "object", v |-> v]

\* The documents: `a` holds a leaf, `o` an object with a leaf under `a`; a
\* key that is undefined is absent.
Leaves == {Undefined, Null, Str("x"), Arr(<< Str("x") >>)}
Documents ==
    {Obj([a |-> l, o |-> n]) : l \in Leaves, n \in {Undefined} \cup {Obj([a |-> m]) : m \in Leaves}}

isMergeble(item) == item.t = "object"

\* clone: JSON.parse(JSON.stringify(value)) builds the value anew, its
\* arrays and objects element by element; a key that is undefined is left
\* out.
RECURSIVE clone(_)
clone(value) ==
    IF value.t = "array" THEN Arr([i \in 1..Len(value.v) |-> clone(value.v[i])])
    ELSE IF value.t = "object" THEN Obj([key \in DOMAIN value.v |-> clone(value.v[key])])
    ELSE value

\* mergeObjects(input, dataToMerge) for sources without `remove:` and
\* `prepend:` keys; the target is changed and returned.
RECURSIVE mergeDocuments(_, _)
MergeKey(target, value) ==
    IF value = Undefined THEN target
    ELSE IF target = Undefined THEN clone(value)
    ELSE IF value = Null THEN Undefined
    ELSE IF value.t = "array"
    THEN (IF target.t = "array" THEN Arr(target.v \o value.v)
          ELSE IF target.t = "string" THEN Arr(<< value >> \o value.v)
          ELSE target)
    ELSE IF isMergeble(value) THEN mergeDocuments(target, value)
    ELSE value
mergeDocuments(input, dataToMerge) ==
    IF isMergeble(input) /\ isMergeble(dataToMerge)
    THEN Obj([key \in DOMAIN input.v |->
                IF key \in DOMAIN dataToMerge.v THEN MergeKey(input.v[key], dataToMerge.v[key]) ELSE input.v[key]])
    ELSE input

\* `mergeObjects(t, s)`, and once more on what it returned.
MergeOnce ==
    /\ evaluation.fn = "mergeObjects" /\ evaluation.pc = "called"
    /\ evaluation' = [evaluation EXCEPT !.pc = "once", !.once = mergeDocuments(evaluation.target, evaluation.source)]
    /\ UNCHANGED << facadeVars, intellisense, cachedAnalysis, cachedQueries, spawns, analyses >>

MergeTwice ==
    /\ evaluation.fn = "mergeObjects" /\ evaluation.pc = "once"
    /\ evaluation' = [evaluation EXCEPT !.pc = "twice", !.twice = mergeDocuments(evaluation.once, evaluation.source)]
    /\ UNCHANGED << facadeVars, intellisense, cachedAnalysis, cachedQueries, spawns, analyses >>

(***************************************************************************)
(* Toolset.serialize and Toolset.deserialize of the toolset under analysis *)
(***************************************************************************)
MaxRoundTripCalls == 2   \* calls of getIntellisenseConfiguration before the round trip

\* The keys of a cache in one order.
RECURSIVE SetToSeq(_)
SetToSeq(S) ==
    IF S = {} THEN <<>>
    ELSE LET x == CHOOSE y \in S : TRUE IN << x >> \o SetToSeq(S \ {x})

\* Cache.entries(): the [key, value] pairs that are there; with the default
\* timeout 0 no entry expires.
CacheEntries(map) ==
    LET keys == SetToSeq({k \in DOMAIN map : map[k].present})
    IN [i \in 1..Len(keys) |-> << keys[i], map[keys[i]].value >>]

\* new Cache(entries) that takes its argument for a timeout.
RECURSIVE CacheWithoutEntries(_, _)
CacheWithoutEntries(a1, map) == map

\* new Cache(entries): `this.set(key, value)` for every pair.
RECURSIVE Cache(_, _)
Cache(a1, map) ==
    IF a1 = <<>> THEN map
    ELSE Cache(Tail(a1), [map EXCEPT ![Head(a1)[1]] = [present |-> TRUE, value |-> Head(a1)[2]]])

\* The one command of the query block, the key of cachedQueries.
QueryCommand == <<"--version">>

\* The toolset under analysis as an object.
ThisToolset ==
    [compilerPath |-> CompilerPath,
     definition |-> [intellisense |-> intellisense],
     cachedQueries |-> [k \in {QueryCommand} |-> [present |-> cachedQueries.present, value |-> cachedQueries.text]],
     cachedAnalysis |-> cachedAnalysis]

\* Toolset.serialize
serialize(toolset) ==
    [compilerPath |-> toolset.compilerPath,
     definition |-> toolset.definition,
     queries |-> CacheEntries(toolset.cachedQueries),
     analysis |-> CacheEntries(toolset.cachedAnalysis)]

\* JSON.stringify and parse of a serialized toolset: the members that are
\* undefined are left out, which is how this model holds them already;
\* the pairs of the caches come back as arrays of two.
JsonRoundTrip(obj) ==
    [obj EXCEPT !.queries = [i \in 1..Len(@) |-> << @[i][1], @[i][2] >>],
                !.analysis = [i \in 1..Len(@) |-> << @[i][1], @[i][2] >>]]

\* Toolset.deserialize
deserialize(obj) ==
    [compilerPath |-> obj.compilerPath,
     definition |-> obj.definition,
     cachedQueries |-> Cache(obj.queries, [k \in {QueryCommand} |-> [present |-> FALSE, value |-> <<>>]]),
     cachedAnalysis |-> Cache(obj.analysis, [k \in CacheKeys |-> [present |-> FALSE, value |-> NoConfig]])]

\* getIntellisenseConfiguration(argv) of a toolset that holds argv in its
\* analysis cache.
CachedConfiguration(toolset, argv) == toolset.cachedAnalysis[cacheKey(argv)].value

\* A call of getIntellisenseConfiguration before the round trip.
AnalysisBeforeRoundTrip ==
    /\ evaluation.fn = "none"
    /\ Len(analyses) < MaxRoundTripCalls
    /\ CallGetIntellisenseConfiguration

\* The toolset is serialized as updateDiscoveredToolsets does, and
\* deserialized as loadCachedEntries does.
RoundTrip ==
    /\ evaluation.fn = "none"
    /\ evaluation' = [fn |-> "deserialize", original |-> ThisToolset,
                      result |-> deserialize(JsonRoundTrip(serialize(ThisToolset)))]
    /\ UNCHANGED << facadeVars, intellisense, cachedAnalysis, cachedQueries, spawns, analyses >>

(***************************************************************************)
(* The key of Toolset.cachedAnalysis on its own                            *)
(***************************************************************************)
MaxKeyCalls == 2         \* calls that look their command line up in the cache

\* Arguments of which one holds a space, and the command lines made of them.
KeyArguments == { <<"a">>, <<"b">>, <<"a", " ", "b">> }
KeyArgvs == UNION {[1..n -> KeyArguments] : n \in 0..MaxArgs}

\* `this.cachedAnalysis.get(cacheKey)` and, on a miss,
\* `this.cachedAnalysis.set(cacheKey, intellisenseConfiguration)` at the end
\* of the analysis: the entry holds the analysis of the command line that
\* made it.
CacheLookup ==
    /\ evaluation.fn = "cacheKey"
    /\ Len(evaluation.calls) < MaxKeyCalls
    /\ \E argv \in KeyArgvs :
        LET key == cacheKey(argv)
            hit == key \in DOMAIN evaluation.cache
            call == [argv |-> argv, hit |-> hit,
                     analysisOf |-> IF hit THEN evaluation.cache[key] ELSE argv]
        IN evaluation' = [evaluation EXCEPT
                !.calls = Append(@, call),
                !.cache = IF hit THEN @ ELSE (key :> argv) @@ @]
    /\ UNCHANGED << facadeVars, intellisense, cachedAnalysis, cachedQueries, spawns, analyses >>

(***************************************************************************)
(* getActions on its own: the keys of a block as they are written          *)
(***************************************************************************)
MaxKeys == 2             \* keys in one block

\* The words a key may begin with, letter by letter.
Word(name) ==
    CASE name = "match" -> <<"m", "a", "t", "c", "h">>
      [] name = "matc" -> <<"m", "a", "t", "c">>
      [] name = "expression" -> <<"e", "x", "p", "r", "e", "s", "s", "i", "o", "n">>
      [] name = "nope" -> <<"n", "o", "p", "e">>
      [] name = "foo" -> <<"f", "o", "o">>
      [] name = "c++" -> <<"c">>
Words == {"match", "matc", "expression", "nope", "foo", "c++"}

\* A flag as written, `name` or `name=value`.
NoValue == "undefined"
Flag(key, value) == [key |-> key, value |-> value]
WrittenFlags == { Flag("oneof", NoValue), Flag("folder", NoValue), Flag("bogus", NoValue),
                  Flag("priority", "0"), Flag("priority", "2") }
FlagLists == { <<>> } \cup { <<f>> : f \in WrittenFlags }
                 \cup { <<Flag("oneof", NoValue), f>> : f \in WrittenFlags \ {Flag("oneof", NoValue)} }

\* A key of a block: the letters it begins with, then `:` and its flags.
Key(word, flags) == [word |-> word, flags |-> flags]
Keys == { Key(w, fl) : w \in Words, fl \in FlagLists }
KeyBlocks == UNION {[1..n -> Keys] : n \in 1..MaxKeys}

\* The `actions` argument of the call in discover.
DiscoverActions ==
    << [name |-> "match", validFlags |-> {"optional", "priority", "oneof"}],
       [name |-> "expression", validFlags |-> {"oneof", "optional", "priority", "folder", "file"}] >>

\* String.startsWith on the letters.
StartsWith(letters, prefix) ==
    Len(prefix) <= Len(letters) /\ SubSeq(letters, 1, Len(prefix)) = prefix

\* The callback of the map of getActions up to the flags: the expression
\* /^([a-zA-Z]{4})(?:[a-zA-Z]*)(?:[:])?(.*?)(#.*?)?$/ is executed on the
\* key; without four leading letters exec yields null, `act` is undefined
\* and `act.toLowerCase()` throws.
ParseKey(expression, actions) ==
    IF Len(Word(expression.word)) < 4
    THEN [threw |-> TRUE, action |-> "", flags |-> [priority |-> "", language |-> "", kept |-> {}]]
    ELSE LET act == SubSeq(Word(expression.word), 1, 4)
             found == {i \in 1..Len(actions) : StartsWith(Word(actions[i].name), act)}
             first == IF found = {} THEN 0 ELSE CHOOSE i \in found : \A j \in found : i <= j
             action == IF first = 0 THEN "" ELSE actions[first].name
             validFlags == IF first = 0 THEN {} ELSE actions[first].validFlags
             kept == {n \in 1..Len(expression.flags) : expression.flags[n].key \in validFlags}
             priorities == {n \in kept : expression.flags[n].key = "priority"}
             last == IF priorities = {} THEN 0 ELSE CHOOSE n \in priorities : \A m \in priorities : m <= n
         IN [threw |-> FALSE, action |-> action,
             flags |-> [priority |-> IF last = 0 THEN "" ELSE expression.flags[last].value,
                        language |-> "",
                        kept |-> {expression.flags[n].key : n \in kept}]]

\* getActions(definition.discover, actions) over the keys as written.
GetActionsOfKeys ==
    /\ evaluation.fn = "getActions" /\ evaluation.pc = "called"
    /\ LET obj == evaluation.obj
           parsed == [n \in 1..Len(obj) |-> ParseKey(obj[n], DiscoverActions)]
       IN evaluation' =
            IF \E n \in 1..Len(obj) : parsed[n].threw
            THEN [evaluation EXCEPT !.pc = "threw"]
            ELSE [evaluation EXCEPT !.pc = "returned",
                    !.entries = getActions([n \in 1..Len(obj) |->
                                    [action |-> parsed[n].action, flags |-> parsed[n].flags]])]
    /\ UNCHANGED << facadeVars, intellisense, cachedAnalysis, cachedQueries, spawns, analyses >>

(***************************************************************************)
(* The requirements of discover on their own: `match` blocks               *)
(***************************************************************************)
MaxBlocks == 2           \* `match` keys in one discover block
MaxEntries == 2          \* (regex, fragment) pairs under one key

\* A pair whose expression is found in the binary, and one whose is not.
MatchEntries == { Entry({"/bin/cc"}, FALSE, FALSE), Entry({}, FALSE, FALSE) }
MatchBlocks ==
    { [action |-> "match", flags |-> fl, entries |-> es] :
        fl \in SUBSET {"oneof", "optional"},
        es \in UNION {[1..n -> MatchEntries] : n \in 1..MaxEntries} }
MatchRequirements == UNION {[1..n -> MatchBlocks] : n \in 1..MaxBlocks}

\* The loop of discover over the requirements of a definition.
RunDiscover ==
    /\ evaluation.fn = "discover" /\ evaluation.pc = "called"
    /\ LET r == RunRequirements(evaluation.requirements, evaluation.compilerPath, 1, <<>>)
       IN evaluation' = [evaluation EXCEPT !.pc = "done", !.ok = r.ok, !.applied = r.applied]
    /\ UNCHANGED << facadeVars, intellisense, cachedAnalysis, cachedQueries, spawns, analyses >>

(***************************************************************************)
(* Toolset.query on its own: the scratch files of `${tmp:...}` tokens      *)
(***************************************************************************)
MaxTmpTokens == 2        \* `${tmp:...}` tokens in one query command

\* The expressions of the `${tmp:...}` tokens of a command, in its order.
TmpExpressions == {"stdout", "stderr", "obj", "log"}
TmpCommands == UNION {[1..n -> TmpExpressions] : n \in 0..MaxTmpTokens}

\* tmpFile('tmp.', `.${expression}`): a fresh name for the token at place n.
tmpFile(n, expression) == << n, expression >>

\* The file the last token with the given expression names, << >> for none.
LastTmp(command, expression) ==
    LET at == {n \in 1..Len(command) : command[n] = expression}
    IN IF at = {} THEN << >> ELSE tmpFile(CHOOSE n \in at : \A m \in at : m <= n, expression)

\* `await render(command, {}, ...)`: every tmp token gets an empty file,
\* which is pushed to tmpFiles.
QueryRender ==
    /\ evaluation.fn = "query" /\ evaluation.pc = "render"
    /\ LET command == evaluation.command
           created == [n \in 1..Len(command) |-> tmpFile(n, command[n])]
       IN evaluation' = [evaluation EXCEPT
            !.pc = "cmd",
            !.tmpFiles = created,
            !.stdout = LastTmp(command, "stdout"),
            !.stderr = LastTmp(command, "stderr"),
            !.scratch = {created[n] : n \in 1..Len(created)}]
    /\ UNCHANGED << facadeVars, intellisense, cachedAnalysis, cachedQueries, spawns, analyses >>

\* `await cmd(...args)` returns the output of the compiler, or is rejected
\* when the process cannot be run.
QueryCmd ==
    /\ evaluation.fn = "query" /\ evaluation.pc = "cmd"
    /\ \E failed \in BOOLEAN :
        evaluation' = [evaluation EXCEPT !.pc = IF failed THEN "threw" ELSE "readStdout"]
    /\ UNCHANGED << facadeVars, intellisense, cachedAnalysis, cachedQueries, spawns, analyses >>

\* `if (stdout) text += await readFile(stdout, 'utf8')`, and the same for
\* stderr: readFile is rejected for a file that cannot be read.
QueryRead ==
    /\ evaluation.fn = "query" /\ evaluation.pc \in {"readStdout", "readStderr"}
    /\ LET file == IF evaluation.pc = "readStdout" THEN evaluation.stdout ELSE evaluation.stderr
           next == IF evaluation.pc = "readStdout" THEN "readStderr" ELSE "unlink"
       IN \E unreadable \in BOOLEAN :
            evaluation' = [evaluation EXCEPT
                !.pc = IF file # << >> /\ unreadable THEN "threw" ELSE next]
    /\ UNCHANGED << facadeVars, intellisense, cachedAnalysis, cachedQueries, spawns, analyses >>

\* `tmpFiles.forEach(each => unlinkSync(each))`, and the text is cached.
QueryUnlink ==
    /\ evaluation.fn = "query" /\ evaluation.pc = "unlink"
    /\ evaluation' = [evaluation EXCEPT
            !.pc = "returned",
            !.scratch = @ \ {evaluation.tmpFiles[n] : n \in 1..Len(evaluation.tmpFiles)}]
    /\ UNCHANGED << facadeVars, intellisense, cachedAnalysis, cachedQueries, spawns, analyses >>

(***************************************************************************)
(* Toolset.runTasks on its own: the task `inline-response-file`            *)
(***************************************************************************)
MaxTaskArgs == 3         \* arguments of the command line given to runTasks

\* The arguments; those that begin with `@` name a response file.
ResponseFiles == {"@empty.rsp", "@one.rsp", "@two.rsp"}
TaskArguments == {"-c"} \cup ResponseFiles
TaskArgvs == UNION {[1..n -> TaskArguments] : n \in 0..MaxTaskArgs}

\* commandLineArgs[i].startsWith('@')
StartsWithAt(arg) == arg \in ResponseFiles

\* cmdlineToArray(await readFile(file, 'utf8')) of the file an argument names.
ResponseFileArgs(arg) ==
    CASE arg = "@empty.rsp" -> << >>
      [] arg = "@one.rsp" -> << "-I/u/inc" >>
      [] arg = "@two.rsp" -> << "-I/u/inc", "-DFOO=1" >>

\* Array.splice(i, 1, ...items) with the index counted from 0.
Splice(array, i, items) ==
    SubSeq(array, 1, i) \o items \o SubSeq(array, i + 2, Len(array))

\* One turn of `for (let i = 0; i < commandLineArgs.length; i++)`.
InlineResponseFile ==
    /\ evaluation.fn = "runTasks" /\ evaluation.pc = "loop"
    /\ LET args == evaluation.commandLineArgs
           i == evaluation.i
       IN evaluation' =
            IF i >= Len(args) THEN [evaluation EXCEPT !.pc = "done"]
            ELSE IF StartsWithAt(args[i + 1])
            THEN [evaluation EXCEPT !.commandLineArgs = Splice(args, i, ResponseFileArgs(args[i + 1])),
                                    !.i = i + 1]
            ELSE [evaluation EXCEPT !.i = i + 1]
    /\ UNCHANGED << facadeVars, intellisense, cachedAnalysis, cachedQueries, spawns, analyses >>

(***************************************************************************)
(* mergeObjects of worker.ts: a source key `remove:K`                      *)
(***************************************************************************)
\* The targets: `a` is the key K, `b` another key, and `key` a property
\* named "key" that a target may happen to have.
RemoveTargets ==
    {Obj([a |-> l, b |-> m, key |-> n]) :
        l \in {Undefined, Str("x"), Str("y"), Arr(<< Str("x") >>), Arr(<< Str("x"), Str("y") >>),
               Arr(<< Str("y"), Str("x"), Str("y") >>)},
        m \in {Undefined, Str("z")},
        n \in {Undefined, Obj([a |-> Undefined])}}
\* The values of the source key `remove:a`.
RemoveValues == {Str("x"), Arr(<< Str("x") >>), Arr(<< Str("x"), Str("y") >>), Arr(<< >>)}

\* strings(value) of strings.ts for a string or an array of strings.
StringsOf(value) ==
    IF value.t = "array" THEN {value.v[i] : i \in 1..Len(value.v)}
    ELSE IF value.t = "string" THEN {value}
    ELSE {}

\* `if (target[key])`: the value is there and is no empty string.
Truthy(value) == value.t \in {"array", "object"} \/ (value.t = "string" /\ value.v # "")

\* mergeObjects(input, {"remove:a": value}): the branch of a key that
\* starts with `remove:`.  For a list the filtered list is assigned to
\* `target.key[key]`: to the property of the object under "key", and
\* without such an object the assignment throws a TypeError.
mergeRemove(input, value) ==
    LET target == input.v
        v == StringsOf(value)
    IN IF ~Truthy(target.a) THEN [threw |-> FALSE, target |-> input]
       ELSE IF target.a.t = "array"
       THEN IF target.key = Undefined
            THEN [threw |-> TRUE, target |-> input]
            ELSE [threw |-> FALSE,
                  target |-> Obj([target EXCEPT !.key =
                                Obj([a |-> Arr(SelectSeq(target.a.v, LAMBDA each : each \notin v))])])]
       ELSE IF target.a.t = "string" /\ target.a \in v
       THEN [threw |-> FALSE, target |-> Obj([target EXCEPT !.a = Undefined])]
       ELSE [threw |-> FALSE, target |-> input]

\* `mergeObjects(t, {"remove:a": value})`
MergeRemove ==
    /\ evaluation.fn = "mergeObjects:remove" /\ evaluation.pc = "called"
    /\ LET r == mergeRemove(evaluation.target, evaluation.value)
       IN evaluation' = [evaluation EXCEPT !.pc = IF r.threw THEN "threw" ELSE "returned",
                                           !.result = r.target]
    /\ UNCHANGED << facadeVars, intellisense, cachedAnalysis, cachedQueries, spawns, analyses >>

(***************************************************************************)
(* mergeObjects of worker.ts: a source list, under K and under `prepend:K` *)
(***************************************************************************)
MaxListLen == 2          \* elements of a list that is merged

ListElements == {Str("x"), Str("y")}
Lists == {Arr(v) : v \in UNION {[1..n -> ListElements] : n \in 0..MaxListLen}}

\* The branch of mergeObjects for a key `prepend:K`: as for K, but the
\* source elements go in front of a target list (unshift).
MergePrependKey(target, value) ==
    IF value.t = "array" /\ target.t = "array" THEN Arr(value.v \o target.v)
    ELSE MergeKey(target, value)

\* `mergeObjects({a: t}, {a: list})` or `mergeObjects({a: t}, {"prepend:a": list})`:
\* expandArray leaves a list of plain strings as it is.
MergeList ==
    /\ evaluation.fn = "mergeObjects:list" /\ evaluation.pc = "called"
    /\ evaluation' = [evaluation EXCEPT
            !.pc = "returned",
            !.result = IF evaluation.prepend
                       THEN MergePrependKey(evaluation.target, evaluation.value)
                       ELSE MergeKey(evaluation.target, evaluation.value)]
    /\ UNCHANGED << facadeVars, intellisense, cachedAnalysis, cachedQueries, spawns, analyses >>

(***************************************************************************)
(* safeEval of sandbox.ts: one sandbox, created once and used by every call *)
(***************************************************************************)
MaxEvalCalls == 2        \* calls of safeEval

\* `SAFE_EVAL_${Math.floor(Math.random() * 1000000)}`: the names of result
\* slots the calls may draw.
SlotNames == {"SAFE_EVAL_1", "SAFE_EVAL_2"}
\* The code: a literal, a read of the variable x, a read of a result slot,
\* an expression that throws when it runs, and a text that does not parse.
Codes == {"1", "x", "SAFE_EVAL_1", "null.f", "("}
\* The context argument: none, or an object with the property x.
NoContext == << >>
Contexts == {NoContext, [x |-> "7"]}

\* What running `${response} = ${code}` in a context with the given global
\* variables does: a SyntaxError before anything runs, an exception while
\* it runs (also the ReferenceError of an undeclared variable), or a value.
RunCode(code, globals) ==
    CASE code = "(" -> [outcome |-> "SyntaxError", value |-> "undefined"]
      [] code = "null.f" -> [outcome |-> "throws", value |-> "undefined"]
      [] code = "1" -> [outcome |-> "value", value |-> "1"]
      [] OTHER -> IF code \in DOMAIN globals
                  THEN [outcome |-> "value", value |-> globals[code]]
                  ELSE [outcome |-> "throws", value |-> "undefined"]

\* The global variables without the given names, and with a variable set.
Delete(globals, names) == [n \in (DOMAIN globals) \ names |-> globals[n]]
Assign(globals, name, value) == [n \in (DOMAIN globals) \cup {name} |-> IF n = name THEN value ELSE globals[n]]

\* The function createSandbox returns, on the sandbox as the earlier calls
\* left it: [outcome, result, sandbox].  With a context the try/catch is
\* part of the script, so a SyntaxError leaves runInContext and the call
\* before the keys of the context are deleted; without a context the
\* try/catch is around runInContext.
SafeEval(sandbox, code, context, response) ==
    LET slotted == Assign(sandbox, response, "{}")
        withKeys == [n \in (DOMAIN slotted) \cup (DOMAIN context) |->
                        IF n \in DOMAIN context THEN context[n] ELSE slotted[n]]
    IN IF context # NoContext
       THEN LET r == RunCode(code, withKeys)
                ran == Assign(withKeys, response, r.value)
            IN IF r.outcome = "SyntaxError"
               THEN [outcome |-> "raised", result |-> "undefined", sandbox |-> withKeys]
               ELSE [outcome |-> "returned", result |-> ran[response],
                     sandbox |-> Delete(ran, DOMAIN context)]
       ELSE LET r == RunCode(code, slotted)
                ran == Assign(slotted, response, r.value)
            IN [outcome |-> "returned", result |-> ran[response], sandbox |-> ran]

\* safeEval(code, context) is called.
CallSafeEval ==
    /\ evaluation.fn = "safeEval"
    /\ Len(evaluation.calls) < MaxEvalCalls
    /\ \E code \in Codes, context \in Contexts, response \in SlotNames :
        LET r == SafeEval(evaluation.sandbox, code, context, response)
        IN evaluation' = [evaluation EXCEPT
                !.sandbox = r.sandbox,
                !.calls = Append(@, [code |-> code, context |-> context, response |-> response,
                                     outcome |-> r.outcome, result |-> r.result])]
    /\ UNCHANGED << facadeVars, intellisense, cachedAnalysis, cachedQueries, spawns, analyses >>

(***************************************************************************)
(* The argument loop of processComamndLineArgs, one iteration at a time,   *)
(* in Toolset of ToolsetDetection (splice) and of Detection (slice).        *)
(***************************************************************************)
MaxIterations == 3       \* iterations of the argument loop that are followed

\* The arguments a chain that matched stands for: slice(0, length) and
\* splice(0, length) take no more than there are.
UsedArgs(engineeredRegexSet, commandLineArgs) ==
    SubSeq(commandLineArgs, 1, IF Len(engineeredRegexSet) < Len(commandLineArgs)
                               THEN Len(engineeredRegexSet) ELSE Len(commandLineArgs))

\* One iteration of `while (commandLineArgs.length)` in ToolsetDetection:
\* the arguments of a match are spliced off, and kept under no_consume.
IterationSplice(s) ==
    LET n == FirstMatch(s.block, s.commandLineArgs)
        m == ExecChain(s.block[n].rxes, s.commandLineArgs, 1, NoCaptures)
        usedArgs == UsedArgs(s.block[n].rxes, s.commandLineArgs)
    IN IF n # 0
       THEN [s EXCEPT !.config = applyToConfiguration(@, s.block[n].isense, m.data),
                      !.commandLineArgs = SubSeq(@, Len(usedArgs) + 1, Len(@)),
                      !.keptArgs = IF s.no_consume THEN @ \o usedArgs ELSE @]
       ELSE [s EXCEPT !.commandLineArgs = Tail(@), !.keptArgs = Append(@, Head(s.commandLineArgs))]

\* The same iteration in Detection: the arguments of a match are sliced,
\* which leaves commandLineArgs as it is, and kept without no_consume.
IterationSlice(s) ==
    LET n == FirstMatch(s.block, s.commandLineArgs)
        m == ExecChain(s.block[n].rxes, s.commandLineArgs, 1, NoCaptures)
        usedArgs == UsedArgs(s.block[n].rxes, s.commandLineArgs)
    IN IF n # 0
       THEN [s EXCEPT !.config = applyToConfiguration(@, s.block[n].isense, m.data),
                      !.keptArgs = IF ~s.no_consume THEN @ \o usedArgs ELSE @]
       ELSE [s EXCEPT !.commandLineArgs = Tail(@), !.keptArgs = Append(@, Head(s.commandLineArgs))]

\* The test of the loop and, with arguments left, one iteration.
CommandIteration ==
    /\ evaluation.fn = "command" /\ evaluation.pc = "loop"
    /\ evaluation.iterations < MaxIterations
    /\ evaluation' =
         IF evaluation.commandLineArgs = <<>>
         THEN [evaluation EXCEPT !.pc = "returned"]
         ELSE [(IF evaluation.toolset = "ToolsetDetection"
                THEN IterationSplice(evaluation) ELSE IterationSlice(evaluation))
               EXCEPT !.iterations = @ + 1]
    /\ UNCHANGED << facadeVars, intellisense, cachedAnalysis, cachedQueries, spawns, analyses >>

(***************************************************************************)
(* The requirements of discover on their own: `expression` blocks          *)
(***************************************************************************)
\* A pair whose expression renders to a folder, one whose expression renders
\* to a file, and one whose expression renders to the empty string.
ExpressionEntries == { Entry({"/bin/cc"}, TRUE, FALSE), Entry({"/bin/cc"}, FALSE, TRUE), Entry({}, FALSE, FALSE) }
ExpressionBlocks ==
    { [action |-> "expression", flags |-> fl, entries |-> es] :
        fl \in SUBSET {"oneof", "optional", "folder"},
        es \in UNION {[1..n -> ExpressionEntries] : n \in 1..MaxEntries} }
ExpressionRequirements == UNION {[1..n -> ExpressionBlocks] : n \in 1..MaxBlocks}

(***************************************************************************)
(* The state machines                                                       *)
(***************************************************************************)
\* A run: how many calls of each operation the callers make, and the
\* arguments they choose from.
Budget(i, g, t, st, cands) ==
    [initialize |-> i, getToolsets |-> g, identifyToolset |-> t, storage |-> st, candidates |-> cands]

\* detected-toolsets.json as an earlier session left it.
EarlierSnapshot == Serialize(Register(<<>>, Toolset("/bin/cc", 2, <<"search", 1>>)))

FacadeInitWith(b, files) ==
    /\ initialized = 0
    /\ resolvedInit = {}
    /\ globalStoragePath = "none"
    /\ registry = <<>>
    /\ discoveringInProgress = [d \in Defs |-> 0]
    /\ discovering = [set |-> FALSE, searches |-> {}]
    /\ searches = <<>>
    /\ runs = {}
    /\ identifyInProgress = [cand \in Candidates \cup NamePatterns |-> Absent]
    /\ disk \in files
    /\ writers = {}
    /\ callers = [c \in Callers |-> IdleFrame]
    /\ budget = b
    /\ searchCount = [d \in Defs |-> 0]

FacadeInit(b, entries) == FacadeInitWith(b, {NoFile} \cup {File(e) : e \in entries})

\* A toolset that has analysed nothing yet.
ToolsetInit(block) ==
    /\ intellisense = block
    /\ cachedAnalysis = [k \in CacheKeys |-> [present |-> FALSE, value |-> NoConfig]]
    /\ cachedQueries = [present |-> FALSE, text |-> <<>>]
    /\ spawns = 0
    /\ analyses = <<>>

\* No function is evaluated on its own.
NoEvaluation == [fn |-> "none"]

AnalysisInit(block) == ToolsetInit(block) /\ evaluation = NoEvaluation

InitWith(b, entries) == FacadeInit(b, entries) /\ AnalysisInit(EmptyFragment)

\* Concurrent calls of initialize only; the snapshot file may exist.
InitInitialize == InitWith(Budget(MaxInitCalls, 0, 0, {"none", "store"}, {}), {EarlierSnapshot})

NextInitialize ==
    \/ \E c \in Callers : CallInitialize(c)
    \/ \E c \in Callers : InitResume(c)
    \/ \E c \in Callers : LoadIsFile(c)
    \/ \E c \in Callers : LoadRead(c)
    \/ \E c \in Callers : InitFinish(c)

SpecInitialize == InitInitialize /\ [][NextInitialize]_vars

\* initialize (twice, so that the second call may reset) and getToolsets,
\* without a storage path.
InitDiscovery == InitWith(Budget(2, MaxGetCalls, 0, {"none"}, {}), {})

NextDiscovery ==
    \/ \E c \in Callers : CallInitialize(c)
    \/ \E c \in Callers : InitResume(c)
    \/ \E c \in Callers : InitFinish(c)
    \/ \E c \in Callers : CallGetToolsets(c)
    \/ \E c \in Callers : GetResume(c)
    \/ \E c \in Callers : GetDefinition(c)
    \/ \E c \in Callers : GetReturn(c)
    \/ \E s \in SearchIds : SearchFind(s)
    \/ \E r \in runs : DiscoverFinish(r)

SpecDiscovery == InitDiscovery /\ [][NextDiscovery]_vars

\* initialize with a storage path and identifyToolset of files: the
\* snapshot is written and loaded again.
InitCache == InitWith(Budget(2, 0, MaxCacheIdentifyCalls, {"store"}, Paths \cup Aliases), {})

NextCache ==
    \/ \E c \in Callers : CallInitialize(c)
    \/ \E c \in Callers : InitResume(c)
    \/ \E c \in Callers : LoadIsFile(c)
    \/ \E c \in Callers : LoadRead(c)
    \/ \E c \in Callers : InitFinish(c)
    \/ \E c \in Callers : CallIdentifyToolset(c)
    \/ \E c \in Callers : IdentifyShared(c)
    \/ \E c \in Callers : IdentifyInfo(c)
    \/ \E c \in Callers : IdentifyDefinition(c)
    \/ \E r \in runs : DiscoverFinish(r)
    \/ WriterCollect
    \/ WriterOpen
    \/ WriterWrite

SpecCache == InitCache /\ [][NextCache]_vars

\* One initialize, one getToolsets and calls of identifyToolset, without a
\* storage path.
Init == InitWith(Budget(1, 1, MaxIdentifyCalls, {"none"}, Candidates), {})

Next ==
    \/ \E c \in Callers : CallInitialize(c)
    \/ \E c \in Callers : InitFinish(c)
    \/ \E c \in Callers : CallGetToolsets(c)
    \/ \E c \in Callers : GetResume(c)
    \/ \E c \in Callers : GetDefinition(c)
    \/ \E c \in Callers : GetReturn(c)
    \/ \E c \in Callers : CallIdentifyToolset(c)
    \/ \E c \in Callers : IdentifyInfo(c)
    \/ \E c \in Callers : IdentifyLookup(c)
    \/ \E c \in Callers : IdentifyDefinition(c)
    \/ \E s \in SearchIds : SearchFind(s)
    \/ \E r \in runs : DiscoverFinish(r)

Spec == Init /\ [][Next]_vars

\* One initialize, one getToolsets, and concurrent calls of identifyToolset
\* that may share an identification, without a storage path.
InitIdentify == InitWith(Budget(1, 1, MaxConcurrentIdentifyCalls, {"none"}, Candidates), {})

NextIdentify ==
    \/ \E c \in Callers : CallInitialize(c)
    \/ \E c \in Callers : InitFinish(c)
    \/ \E c \in Callers : CallGetToolsets(c)
    \/ \E c \in Callers : GetResume(c)
    \/ \E c \in Callers : GetDefinition(c)
    \/ \E c \in Callers : GetReturn(c)
    \/ \E c \in Callers : CallIdentifyToolset(c)
    \/ \E c \in Callers : IdentifyShared(c)
    \/ \E c \in Callers : IdentifyInfo(c)
    \/ \E c \in Callers : IdentifyLookup(c)
    \/ \E c \in Callers : IdentifyDefinition(c)
    \/ \E s \in SearchIds : SearchFind(s)
    \/ \E r \in runs : DiscoverFinish(r)

SpecIdentify == InitIdentify /\ [][NextIdentify]_vars

\* One initialize, one getToolsets and a call of identifyToolset with a
\* name or a pattern, without a storage path.
InitLookup == InitWith(Budget(1, 1, 1, {"none"}, NamePatterns), {})

NextLookup ==
    \/ \E c \in Callers : CallInitialize(c)
    \/ \E c \in Callers : InitFinish(c)
    \/ \E c \in Callers : CallGetToolsets(c)
    \/ \E c \in Callers : GetResume(c)
    \/ \E c \in Callers : GetDefinition(c)
    \/ \E c \in Callers : GetReturn(c)
    \/ \E c \in Callers : CallIdentifyToolset(c)
    \/ \E c \in Callers : IdentifyInfo(c)
    \/ \E c \in Callers : IdentifyLookup(c)
    \/ \E s \in SearchIds : SearchFind(s)
    \/ \E r \in runs : DiscoverFinish(r)

SpecLookup == InitLookup /\ [][NextLookup]_vars

\* initialize (twice, so that the second call may reset), one getToolsets
\* and a call of identifyToolset with a pattern, without a storage path.
InitRetry == InitWith(Budget(2, 1, 1, {"none"}, Patterns), {})

NextRetry ==
    \/ \E c \in Callers : CallInitialize(c)
    \/ \E c \in Callers : InitResume(c)
    \/ \E c \in Callers : InitFinish(c)
    \/ \E c \in Callers : CallGetToolsets(c)
    \/ \E c \in Callers : GetResume(c)
    \/ \E c \in Callers : GetDefinition(c)
    \/ \E c \in Callers : GetReturn(c)
    \/ \E c \in Callers : CallIdentifyToolset(c)
    \/ \E c \in Callers : IdentifyInfo(c)
    \/ \E c \in Callers : IdentifyLookup(c)
    \/ \E s \in SearchIds : SearchFind(s)
    \/ \E r \in runs : DiscoverFinish(r)

SpecRetry == InitRetry /\ [][NextRetry]_vars

\* The earlier facade: calls of its identifyToolset.
InitLegacy == InitWith(Budget(0, 0, MaxLegacyIdentifyCalls, {"none"}, Paths \cup Aliases \cup Backslashed), {})

NextLegacy ==
    \/ \E c \in Callers : LegacyCallIdentifyToolset(c)
    \/ \E c \in Callers : LegacyIdentifyInfo(c)
    \/ \E c \in Callers : LegacyIdentifyDefinition(c)
    \/ \E r \in runs : LegacyDiscoverFinish(r)

SpecLegacy == InitLegacy /\ [][NextLegacy]_vars

\* Calls of getIntellisenseConfiguration on one toolset.
InitAnalysis ==
    /\ FacadeInit(Budget(0, 0, 0, {"none"}, {}), {})
    /\ \E block \in IntellisenseBlocks : AnalysisInit(block)

NextAnalysis ==
    \/ CallGetIntellisenseConfiguration
    \/ \E i \in 1..Len(analyses) : QueryReturns(i)

SpecAnalysis == InitAnalysis /\ [][NextAnalysis]_vars

\* The analysis phase of one call, for every block of up to MaxActions keys.
InitActions ==
    /\ FacadeInit(Budget(0, 0, 0, {"none"}, {}), {})
    /\ ToolsetInit(EmptyFragment)
    /\ \E obj \in AnalysisBlocks :
        evaluation = [fn |-> "analysis", pc |-> "called", analysis |-> obj, language |-> "undefined",
                      config |-> NoConfig, compilerArgs |-> <<>>, entries |-> <<>>, executed |-> <<>>]

NextActions ==
    \/ BeginAnalysisPhase
    \/ RunAction

SpecActions == InitActions /\ [][NextActions]_vars

\* A command action over every command line, with and without no_consume.
InitCommand ==
    /\ FacadeInit(Budget(0, 0, 0, {"none"}, {}), {})
    /\ ToolsetInit(EmptyFragment)
    /\ \E block \in CommandBlocks, argv \in CommandArgvs, no_consume \in BOOLEAN :
        evaluation = [fn |-> "processComamndLineArgs", pc |-> "called", block |-> block,
                      commandLineArgs |-> argv, no_consume |-> no_consume,
                      compilerArgs |-> <<>>, config |-> NoConfig]

NextCommand == ProcessCommandLine

SpecCommand == InitCommand /\ [][NextCommand]_vars

\* postProcessIntellisense over every configuration of PostProcessInputs.
InitPostProcess ==
    /\ FacadeInit(Budget(0, 0, 0, {"none"}, {}), {})
    /\ ToolsetInit(EmptyFragment)
    /\ \E c \in PostProcessInputs :
        evaluation = [fn |-> "postProcessIntellisense", pc |-> "called", intellisense |-> c, result |-> NoConfig]

NextPostProcess == PostProcess

SpecPostProcess == InitPostProcess /\ [][NextPostProcess]_vars

\* mergeObjects over every target and source of Documents.
InitMerge ==
    /\ FacadeInit(Budget(0, 0, 0, {"none"}, {}), {})
    /\ ToolsetInit(EmptyFragment)
    /\ \E t \in Documents, src \in Documents :
        evaluation = [fn |-> "mergeObjects", pc |-> "called", target |-> t, source |-> src,
                      once |-> Undefined, twice |-> Undefined]

NextMerge ==
    \/ MergeOnce
    \/ MergeTwice

SpecMerge == InitMerge /\ [][NextMerge]_vars

\* The toolset under analysis, serialized and deserialized after up to
\* MaxRoundTripCalls analyses.
InitRoundTrip == InitAnalysis

NextRoundTrip ==
    \/ AnalysisBeforeRoundTrip
    \/ \E i \in 1..Len(analyses) : QueryReturns(i)
    \/ RoundTrip

SpecRoundTrip == InitRoundTrip /\ [][NextRoundTrip]_vars

\* detected-toolsets.json with an entry that has no definition beside a
\* well-formed one.
MixedSnapshot == EarlierSnapshot \o << [key |-> "/bin/bad", compilerPath |-> "/bin/bad", def |-> 0] >>

\* initialize over every state of detected-toolsets.json.
InitLoad ==
    /\ FacadeInitWith(Budget(2, 0, 0, {"none", "store"}, {}),
                      {NoFile, File(EarlierSnapshot), File(MixedSnapshot), CorruptFile})
    /\ AnalysisInit(EmptyFragment)

NextLoad ==
    \/ \E c \in Callers : CallInitialize(c)
    \/ \E c \in Callers : InitResume(c)
    \/ \E c \in Callers : LoadIsFile(c)
    \/ \E c \in Callers : LoadRead(c)
    \/ \E c \in Callers : InitFinish(c)

SpecLoad == InitLoad /\ [][NextLoad]_vars

\* One initialize and calls of getToolsets whose searches may fail.
InitFailure == InitWith(Budget(1, MaxGetCalls, 0, {"none"}, {}), {})

NextFailure ==
    \/ \E c \in Callers : CallInitialize(c)
    \/ \E c \in Callers : InitFinish(c)
    \/ \E c \in Callers : CallGetToolsets(c)
    \/ \E c \in Callers : GetResume(c)
    \/ \E c \in Callers : GetDefinition(c)
    \/ \E c \in Callers : GetReturn(c)
    \/ \E c \in Callers : GetThrows(c)
    \/ \E s \in SearchIds : SearchFind(s)
    \/ \E s \in SearchIds : SearchThrows(s)
    \/ \E r \in runs : DiscoverFinish(r)

SpecFailure == InitFailure /\ [][NextFailure]_vars

\* Calls of getIntellisenseConfiguration as far as the cache key goes.
InitCacheKey ==
    /\ FacadeInit(Budget(0, 0, 0, {"none"}, {}), {})
    /\ ToolsetInit(EmptyFragment)
    /\ evaluation = [fn |-> "cacheKey", cache |-> <<>>, calls |-> <<>>]

NextCacheKey ==
    \/ CacheLookup

SpecCacheKey == InitCacheKey /\ [][NextCacheKey]_vars

\* getActions over every block of up to MaxKeys keys.
InitKeys ==
    /\ FacadeInit(Budget(0, 0, 0, {"none"}, {}), {})
    /\ ToolsetInit(EmptyFragment)
    /\ \E obj \in KeyBlocks :
        evaluation = [fn |-> "getActions", pc |-> "called", obj |-> obj, entries |-> <<>>]

NextKeys ==
    \/ GetActionsOfKeys

SpecKeys == InitKeys /\ [][NextKeys]_vars

\* discover over every list of up to MaxBlocks `match` blocks.
InitMatch ==
    /\ FacadeInit(Budget(0, 0, 0, {"none"}, {}), {})
    /\ ToolsetInit(EmptyFragment)
    /\ \E reqs \in MatchRequirements :
        evaluation = [fn |-> "discover", pc |-> "called", requirements |-> reqs,
                      compilerPath |-> "/bin/cc", ok |-> FALSE, applied |-> <<>>]

NextMatch ==
    \/ RunDiscover

SpecMatch == InitMatch /\ [][NextMatch]_vars

\* Toolset.query of a command that has not been run, for every command of
\* up to MaxTmpTokens tmp tokens.
InitQuery ==
    /\ FacadeInit(Budget(0, 0, 0, {"none"}, {}), {})
    /\ ToolsetInit(EmptyFragment)
    /\ \E command \in TmpCommands :
        evaluation = [fn |-> "query", pc |-> "render", command |-> command, tmpFiles |-> << >>,
                      stdout |-> << >>, stderr |-> << >>, scratch |-> {}]

NextQuery ==
    \/ QueryRender
    \/ QueryCmd
    \/ QueryRead
    \/ QueryUnlink

SpecQuery == InitQuery /\ [][NextQuery]_vars

\* runTasks('inline-response-file', argv) for every command line of up to
\* MaxTaskArgs arguments.
InitTasks ==
    /\ FacadeInit(Budget(0, 0, 0, {"none"}, {}), {})
    /\ ToolsetInit(EmptyFragment)
    /\ \E argv \in TaskArgvs :
        evaluation = [fn |-> "runTasks", pc |-> "loop", input |-> argv, commandLineArgs |-> argv, i |-> 0]

NextTasks ==
    \/ InlineResponseFile

SpecTasks == InitTasks /\ [][NextTasks]_vars

\* mergeObjects of a source that holds the key `remove:a`.
InitRemove ==
    /\ FacadeInit(Budget(0, 0, 0, {"none"}, {}), {})
    /\ ToolsetInit(EmptyFragment)
    /\ \E t \in RemoveTargets, value \in RemoveValues :
        evaluation = [fn |-> "mergeObjects:remove", pc |-> "called", target |-> t, value |-> value,
                      result |-> Undefined]

NextRemove ==
    \/ MergeRemove

SpecRemove == InitRemove /\ [][NextRemove]_vars

\* mergeObjects of a source list into a target list or string.
InitList ==
    /\ FacadeInit(Budget(0, 0, 0, {"none"}, {}), {})
    /\ ToolsetInit(EmptyFragment)
    /\ \E t \in Lists \cup ListElements, value \in Lists, prepend \in BOOLEAN :
        evaluation = [fn |-> "mergeObjects:list", pc |-> "called", target |-> t, value |-> value,
                      prepend |-> prepend, result |-> Undefined]

NextList ==
    \/ MergeList

SpecList == InitList /\ [][NextList]_vars

\* Calls of safeEval on the sandbox of the module.
InitSandbox ==
    /\ FacadeInit(Budget(0, 0, 0, {"none"}, {}), {})
    /\ ToolsetInit(EmptyFragment)
    /\ evaluation = [fn |-> "safeEval", sandbox |-> << >>, calls |-> << >>]

NextSandbox ==
    \/ CallSafeEval

SpecSandbox == InitSandbox /\ [][NextSandbox]_vars

\* One initialize, one getToolsets and two calls of identifyToolset with a
\* path or a name, without a storage path.  The event loop runs every
\* continuation that is ready: each step other than a call of the facade is
\* taken when it stays enabled.
InitSettle == InitWith(Budget(1, 1, 2, {"none"}, Paths \cup {"gnu*"}), {})

NextSettle ==
    \/ \E c \in Callers : CallInitialize(c)
    \/ \E c \in Callers : InitFinish(c)
    \/ \E c \in Callers : CallGetToolsets(c)
    \/ \E c \in Callers : GetResume(c)
    \/ \E c \in Callers : GetDefinition(c)
    \/ \E c \in Callers : GetReturn(c)
    \/ \E c \in Callers : CallIdentifyToolset(c)
    \/ \E c \in Callers : IdentifyShared(c)
    \/ \E c \in Callers : IdentifyInfo(c)
    \/ \E c \in Callers : IdentifyLookup(c)
    \/ \E c \in Callers : IdentifyDefinition(c)
    \/ \E s \in SearchIds : SearchFind(s)
    \/ \E r \in runs : DiscoverFinish(r)

EventLoop ==
    /\ WF_vars(\E c \in Callers : InitFinish(c))
    /\ WF_vars(\E c \in Callers : GetResume(c))
    /\ WF_vars(\E c \in Callers : GetDefinition(c))
    /\ WF_vars(\E c \in Callers : GetReturn(c))
    /\ WF_vars(\E c \in Callers : IdentifyShared(c))
    /\ WF_vars(\E c \in Callers : IdentifyInfo(c))
    /\ WF_vars(\E c \in Callers : IdentifyLookup(c))
    /\ WF_vars(\E c \in Callers : IdentifyDefinition(c))
    /\ WF_vars(\E s \in SearchIds : SearchFind(s))
    /\ WF_vars(\E r \in runs : DiscoverFinish(r))

SpecSettle == InitSettle /\ [][NextSettle]_vars /\ EventLoop

\* initialize twice with a storage path over a detected-toolsets.json that
\* parses or does not, one getToolsets and one identifyToolset with a name;
\* every continuation that is ready is run.
InitStall ==
    /\ FacadeInitWith(Budget(2, 1, 1, {"store"}, Patterns), {File(EarlierSnapshot), CorruptFile})
    /\ AnalysisInit(EmptyFragment)

NextStall ==
    \/ \E c \in Callers : CallInitialize(c)
    \/ \E c \in Callers : InitResume(c)
    \/ \E c \in Callers : LoadIsFile(c)
    \/ \E c \in Callers : LoadRead(c)
    \/ \E c \in Callers : InitFinish(c)
    \/ \E c \in Callers : CallGetToolsets(c)
    \/ \E c \in Callers : GetResume(c)
    \/ \E c \in Callers : GetDefinition(c)
    \/ \E c \in Callers : GetReturn(c)
    \/ \E c \in Callers : CallIdentifyToolset(c)
    \/ \E c \in Callers : IdentifyInfo(c)
    \/ \E c \in Callers : IdentifyLookup(c)
    \/ \E s \in SearchIds : SearchFind(s)
    \/ \E r \in runs : DiscoverFinish(r)
    \/ WriterCollect
    \/ WriterOpen
    \/ WriterWrite

EventLoopStall ==
    /\ WF_vars(\E c \in Callers : InitResume(c))
    /\ WF_vars(\E c \in Callers : LoadIsFile(c))
    /\ WF_vars(\E c \in Callers : LoadRead(c))
    /\ WF_vars(\E c \in Callers : InitFinish(c))
    /\ WF_vars(\E c \in Callers : GetResume(c))
    /\ WF_vars(\E c \in Callers : GetDefinition(c))
    /\ WF_vars(\E c \in Callers : GetReturn(c))
    /\ WF_vars(\E c \in Callers : IdentifyInfo(c))
    /\ WF_vars(\E c \in Callers : IdentifyLookup(c))
    /\ WF_vars(\E s \in SearchIds : SearchFind(s))
    /\ WF_vars(\E r \in runs : DiscoverFinish(r))
    /\ WF_vars(WriterCollect)
    /\ WF_vars(WriterOpen)
    /\ WF_vars(WriterWrite)

SpecStall == InitStall /\ [][NextStall]_vars /\ EventLoopStall

\* initialize (twice, so that the second call may reset) and two calls of
\* identifyToolset with a file, without a storage path.
InitReset == InitWith(Budget(2, 0, 2, {"none"}, Paths \cup Aliases), {})

NextReset ==
    \/ \E c \in Callers : CallInitialize(c)
    \/ \E c \in Callers : InitResume(c)
    \/ \E c \in Callers : InitFinish(c)
    \/ \E c \in Callers : CallIdentifyToolset(c)
    \/ \E c \in Callers : IdentifyShared(c)
    \/ \E c \in Callers : IdentifyInfo(c)
    \/ \E c \in Callers : IdentifyDefinition(c)
    \/ \E r \in runs : DiscoverFinish(r)

SpecReset == InitReset /\ [][NextReset]_vars

\* The argument loop of a command action in either Toolset, over every
\* command line, with and without no_consume.
InitLoop ==
    /\ FacadeInit(Budget(0, 0, 0, {"none"}, {}), {})
    /\ ToolsetInit(EmptyFragment)
    /\ \E toolset \in {"ToolsetDetection", "Detection"}, block \in CommandBlocks,
          argv \in CommandArgvs, no_consume \in BOOLEAN :
        evaluation = [fn |-> "command", pc |-> "loop", toolset |-> toolset, block |-> block,
                      commandLineArgs |-> argv, no_consume |-> no_consume, keptArgs |-> <<>>,
                      config |-> [EmptyFragment EXCEPT !.compilerPath = CompilerPath], iterations |-> 0]

NextLoop ==
    \/ CommandIteration

SpecLoop == InitLoop /\ [][NextLoop]_vars

\* discover over every list of up to MaxBlocks `expression` blocks.
InitExpression ==
    /\ FacadeInit(Budget(0, 0, 0, {"none"}, {}), {})
    /\ ToolsetInit(EmptyFragment)
    /\ \E reqs \in ExpressionRequirements :
        evaluation = [fn |-> "discover", pc |-> "called", requirements |-> reqs,
                      compilerPath |-> "/bin/cc", ok |-> FALSE, applied |-> <<>>]

NextExpression ==
    \/ RunDiscover

SpecExpression == InitExpression /\ [][NextExpression]_vars

(***************************************************************************)
(* Properties of the facade                                                *)
(***************************************************************************)
\* The calls of getToolsets and identifyToolset made so far.
FacadeCalls == {c \in Callers : callers[c].op \in {"getToolsets", "identifyToolset"}}

\* C3 as the specification states it: a call of getToolsets or of
\* identifyToolset made before an initialize call has completed ends with
\* the NotInitialized error, never with a registry or a toolset.
C3_NotInitializedUntilCompleted ==
    \A c \in FacadeCalls : callers[c].early /\ callers[c].pc = "done" => callers[c].ret = "threw"

\* C3, as the code has it: a call of getToolsets or of identifyToolset ends
\* with the NotInitialized error exactly when it is made before any call of
\* initialize; made while an initialize is in flight it waits, and
\* getToolsets returns the registry only once an initialize has completed.
C3_NotInitializedUntilBegun ==
    /\ \A c \in FacadeCalls : (callers[c].ret = "threw") <=> ~callers[c].begun
    /\ \A c \in FacadeCalls : callers[c].op = "getToolsets" /\ callers[c].ret = "registry" => InitCompleted

\* One call threw before any initialize, and a getToolsets call made while
\* the initialize was in flight has returned the registry.
C3_Witness ==
    \E a, b \in FacadeCalls :
        /\ ~callers[a].begun /\ callers[a].ret = "threw"
        /\ callers[b].begun /\ callers[b].early /\ callers[b].ret = "registry"

\* C4: at most one call of initialize is between its reset and its
\* `initialized.resolve()` at any time.
C4_OneInitializeBody == Cardinality({c \in Callers : InInitBody(c)}) <= 1

\* A step starts a search.
NewSearch == Len(searches') > Len(searches)

\* The calls of getToolsets made since the last reset that have returned.
GetCompleted == {c \in Callers : /\ callers[c].op = "getToolsets"
                                 /\ callers[c].pc = "done"
                                 /\ callers[c].ret = "registry"
                                 /\ callers[c].epoch = Resets}

DiscoveryDone ==
    /\ \A d \in Defs : discoveringInProgress[d] # 0 => SearchComplete(discoveringInProgress[d])
    /\ \A d \in Defs : \A p \in FinderResults(d) :
            discoveringInProgress[d] # 0 /\ Verifies(d, p) => RegGet(registry, DiscoverPath(p)) # NoToolset

\* C6: in the step in which a call of getToolsets returns the registry, no
\* registered search is pending and the registry holds what they verified.
C6_ReturnsAfterDiscovery ==
    [][\A c \in Callers :
          callers[c].op = "getToolsets" /\ callers[c].pc # "done" /\ callers'[c].pc = "done"
              => DiscoveryDone]_vars

C8_FirstWriterWins ==
    [][registry # <<>> /\ registry' # <<>>
          => \A i \in 1..Len(registry) : i <= Len(registry') /\ registry'[i] = registry[i]]_vars

\* C9: two calls of identifyToolset for one candidate, one made while the
\* other was in flight, end with the same toolset (or both with none).
C9_SameToolset ==
    \A b \in Callers : \A a \in callers[b].overlap :
        callers[a].pc = "done" /\ callers[b].pc = "done"
            => callers[a].ret = callers[b].ret /\ callers[a].value = callers[b].value

\* C10: every entry of the registry is keyed by the compilerPath of its
\* toolset, and that path is in its canonical (resolved) form.
C10_KeyIsCompilerPath ==
    \A i \in 1..Len(registry) :
        /\ registry[i].key = registry[i].ts.compilerPath
        /\ resolve(registry[i].key) = registry[i].key

(***************************************************************************)
(* Properties of getIntellisenseConfiguration                              *)
(***************************************************************************)
\* C1: of two calls with the same command line and no user settings, the
\* second made right after the first has returned, the second returns a
\* configuration equal to that of the first (parserArguments included), is
\* served from the cache, and spawns no process.
C1_SecondCallEqual ==
    \A j \in 2..Len(analyses) :
        LET a == analyses[j - 1]
            b == analyses[j]
        IN (/\ (j - 1) \in b.after
            /\ b.pc = "done"
            /\ a.argv = b.argv
            /\ ~a.user.given /\ ~b.user.given)
           => /\ b.result = a.result
              /\ b.hit
              /\ b.spawned = 0

\* C2: a call that is served from the cache leaves the cache as it is.
C2_HitLeavesCacheEntry ==
    [][(Len(analyses') > Len(analyses) /\ analyses'[Len(analyses')].hit)
          => cachedAnalysis' = cachedAnalysis]_vars

\* C11: in what an analysis returns, every value under a key that names a
\* path (compilerPath, and every list of `include`) is a path that
\* exists, and no list holds a path twice.
C11_PathsAreLegit ==
    \A i \in 1..Len(analyses) :
        LET r == analyses[i].result
        IN analyses[i].pc = "done" =>
            /\ r.compilerPath # NoString => Exists(r.compilerPath)
            /\ \A k \in IncludeKeys :
                    /\ \A n \in 1..Len(r[k].items) : Exists(r[k].items[n])
                    /\ \A m, n \in 1..Len(r[k].items) : r[k].items[m] = r[k].items[n] => m = n

\* The analysis phase has run through its entries.
PhaseDone == evaluation.fn = "analysis" /\ evaluation.pc = "entries" /\ evaluation.entries = <<>>
\* Where the key at place n of the block was executed: 0 = not executed.
ExecutedAt(n) ==
    IF \E x \in 1..Len(evaluation.executed) : evaluation.executed[x].source = n
    THEN CHOOSE x \in 1..Len(evaluation.executed) : evaluation.executed[x].source = n
    ELSE 0
\* The macros defined in an object.
MacroNames(macros) == {macros.entries[n].k : n \in 1..Len(macros.entries)}

\* C12: of two executed actions whose keys carry the priorities p1 < p2,
\* the one with p1 is executed first and the macros it left are in the
\* configuration the one with p2 is evaluated against.
C12_PriorityOrder ==
    PhaseDone =>
        \A a, b \in 1..Len(evaluation.analysis) :
            LET ka == evaluation.analysis[a]  kb == evaluation.analysis[b]
            IN (/\ ka.flags.priority # NoFlag /\ kb.flags.priority # NoFlag
                /\ parseInt(ka.flags.priority) < parseInt(kb.flags.priority)
                /\ ExecutedAt(a) # 0 /\ ExecutedAt(b) # 0)
               => /\ ExecutedAt(a) < ExecutedAt(b)
                  /\ MacroNames(evaluation.executed[ExecutedAt(a)].left)
                        \subseteq MacroNames(evaluation.executed[ExecutedAt(b)].saw)

\* C13: an action flagged `c` is executed exactly when the language is c,
\* one flagged `cpp` or `c++` exactly when the language is cpp or c++, and
\* an action without language flag always.
C13_LanguageFilter ==
    PhaseDone =>
        \A n \in 1..Len(evaluation.analysis) :
            LET flag == evaluation.analysis[n].flags.language
            IN ExecutedAt(n) # 0 <=>
                  \/ flag = NoFlag
                  \/ flag = "c" /\ isC(evaluation.language)
                  \/ flag \in {"cpp", "c++"} /\ isCpp(evaluation.language)

\* A chain matches the head of the arguments: each of its expressions
\* matches the argument at its place, which is there.
ChainMatches(rxes, args) ==
    /\ Len(rxes) <= Len(args)
    /\ \A i \in 1..Len(rxes) : Exec(rxes[i], args[i]).matched

\* The kept list as the command action is described: the arguments that
\* a chain matches are dropped, or kept under no_consume; an argument at
\* which no chain matches is kept.
RECURSIVE Kept(_, _, _)
Kept(block, args, no_consume) ==
    IF args = <<>> THEN <<>>
    ELSE IF \E n \in 1..Len(block) : ChainMatches(block[n].rxes, args)
    THEN LET n == CHOOSE x \in 1..Len(block) :
                    /\ ChainMatches(block[x].rxes, args)
                    /\ \A y \in 1..(x - 1) : ~ChainMatches(block[y].rxes, args)
             k == Len(block[n].rxes)
         IN (IF no_consume THEN SubSeq(args, 1, k) ELSE <<>>) \o Kept(block, SubSeq(args, k + 1, Len(args)), no_consume)
    ELSE << Head(args) >> \o Kept(block, Tail(args), no_consume)

\* C14: the compilerArgs a command action leaves are the kept list: the
\* arguments matched by a chain are removed without no_consume and kept
\* with it, the unmatched ones are kept, in their order.
C14_KeptArgs ==
    (evaluation.fn = "processComamndLineArgs" /\ evaluation.pc = "done") =>
        evaluation.compilerArgs = Kept(evaluation.block, evaluation.commandLineArgs, evaluation.no_consume)

\* The arguments of a list of paths, each behind the option.
Paired(option, items) ==
    [i \in 1..(2 * Len(items)) |-> IF i % 2 = 1 THEN << option >> ELSE items[i \div 2]]

\* C15: post-processing appends to a parserArguments that is a list, in
\* this order, -D<name>=<value> for every macro, -I<path> for the built-in
\* paths, --sys_include <path> for the system and then the external
\* paths, --include_directory <path> for the paths and then the
\* environment paths; it changes nothing else, and nothing at all when
\* parserArguments is not a list.
C15_ParserArguments ==
    (evaluation.fn = "postProcessIntellisense" /\ evaluation.pc = "done") =>
        LET in == evaluation.intellisense
            out == evaluation.result
            m == in.macros.entries
            b == in.builtInPaths.items
            expected ==
                [i \in 1..Len(m) |-> <<"-D">> \o m[i].k \o <<"=">> \o m[i].v]
                \o [i \in 1..Len(b) |-> <<"-I">> \o b[i]]
                \o Paired("--sys_include", in.systemPaths.items)
                \o Paired("--sys_include", in.externalPaths.items)
                \o Paired("--include_directory", in.paths.items)
                \o Paired("--include_directory", in.environmentPaths.items)
        IN /\ \A k \in DOMAIN in \ {"parserArguments"} : out[k] = in[k]
           /\ out.parserArguments =
                IF in.parserArguments.isArray THEN Array(in.parserArguments.items \o expected)
                ELSE in.parserArguments

\* A configuration with macros and paths in every list was post-processed
\* into a parserArguments that was a list already.
C15_Witness ==
    /\ evaluation.fn = "postProcessIntellisense" /\ evaluation.pc = "done"
    /\ evaluation.intellisense.parserArguments = Array(<< <<"-u">> >>)
    /\ Len(evaluation.intellisense.macros.entries) = MaxMacros
    /\ \A k \in IncludeKeys : Len(evaluation.intellisense[k].items) = MaxPaths
    /\ Len(evaluation.result.parserArguments.items) = 1 + MaxMacros + 9 * MaxPaths

\* C16: merging a source a second time into what the first merge
\* returned changes nothing: merge(merge(t, s), s) equals merge(t, s).
C16_MergeIdempotent ==
    (evaluation.fn = "mergeObjects" /\ evaluation.pc = "twice") => evaluation.twice = evaluation.once

C18_CorruptFileIsAbsent ==
    /\ \A c \in Callers : callers[c].op = "initialize" => callers[c].ret # "threw"
    /\ \A i \in 1..Len(registry) : registry[i].ts # NoToolset /\ registry[i].ts.def \in Defs

\* C19: the writes of detected-toolsets.json are coalesced and atomic: at
\* most one write is in flight at a time, and the file is never there in
\* part, so that no reader can see it half written.
C19_OneAtomicWrite ==
    /\ Cardinality({w \in writers : w.stage \in {"writeFile", "writing"}}) <= 1
    /\ disk.text \in {"none", "json"}

\* C20: a failure in the search of one definition stays inside: a call of
\* getToolsets made once an initialize call has begun does not throw, the
\* calls that follow a failed search included.
C20_FailureStaysInside ==
    \A c \in Callers :
        (callers[c].op = "getToolsets" /\ callers[c].begun) => callers[c].ret # "threw"

(***************************************************************************)
(* Properties of the lookup by name                                        *)
(***************************************************************************)
\* The pattern matches the whole string; "*" stands for any run of tokens.
GlobMatch(pat, str) == MatchHere(Append(pat, "$"), Append(str, "$"))

\* The toolset a glob lookup selects: of the toolsets whose whole name the
\* pattern matches, the one of the highest version, the first inserted
\* among equal versions; none without a match.
GlobLookup(reg, name) ==
    LET hits == {i \in 1..Len(reg) : GlobMatch(Tokens(name), ToolsetName(reg[i].ts))}
        best == {i \in hits : \A j \in hits :
                    \/ DefVersion(reg[i].ts.def) > DefVersion(reg[j].ts.def)
                    \/ DefVersion(reg[i].ts.def) = DefVersion(reg[j].ts.def) /\ i <= j}
    IN IF hits = {} THEN NoToolset ELSE reg[CHOOSE i \in best : TRUE].ts

\* A call of identifyToolset with a candidate that is no file returns in
\* this step.
LookupReturns(c) ==
    /\ callers[c].op = "identifyToolset"
    /\ ~IsFile(callers[c].args.cand)
    /\ callers[c].pc # "done"
    /\ callers'[c].pc = "done"

\* C21: for a candidate that is not a file, identifyToolset returns the
\* registered toolset of the highest version (the first inserted among
\* equal versions) whose whole name matches the candidate as a glob pattern
\* with "*" as its only wildcard, and none when no registered name matches.
C21_GlobLookup ==
    [][\A c \in Callers : LookupReturns(c)
          => callers'[c].value = GlobLookup(registry', callers[c].args.cand)]_vars

\* Every loaded definition has a search registered since the last reset,
\* and each of these searches is settled.
CurrentDiscoveryDone ==
    \A d \in Defs : discoveringInProgress[d] # 0 /\ SearchComplete(discoveringInProgress[d])

\* A call of identifyToolset makes its second lookup in this step.
RetryReturns(c) ==
    /\ callers[c].op = "identifyToolset"
    /\ callers[c].pc = "awaitDiscovering"
    /\ callers'[c].pc = "done"

\* C22: a call of identifyToolset whose first lookup found no match makes
\* its second lookup only when the discovery over the loaded definitions
\* is complete, also when an initialize has reset the registry since the
\* promise `discovering` was made.
C22_RetryAfterDiscovery ==
    [][\A c \in Callers : RetryReturns(c) => CurrentDiscoveryDone]_vars

(***************************************************************************)
(* Properties of the analysis cache key                                    *)
(***************************************************************************)
\* C23: two different command lines never share an entry of the analysis
\* cache: a call served from the cache receives the analysis of its own
\* command line.
C23_KeySeparatesArgv ==
    evaluation.fn = "cacheKey"
        => \A i \in 1..Len(evaluation.calls) : evaluation.calls[i].analysisOf = evaluation.calls[i].argv

(***************************************************************************)
(* Properties of getActions                                                *)
(***************************************************************************)
\* The value the key at place n of the block gives for its priority flag,
\* "" when it carries none.
WrittenPriority(n) ==
    LET flags == evaluation.obj[n].flags
        given == {m \in 1..Len(flags) : flags[m].key = "priority"}
    IN IF given = {} THEN "" ELSE flags[CHOOSE m \in given : \A k \in given : k <= m].value

\* C24: every entry getActions returns has the priority its key's
\* `priority` flag gives (also when that is 0) and else its index in the
\* block, and the entries come in ascending priority, those of equal
\* priority in the order of the block.
C24_PriorityOfFlag ==
    evaluation.fn = "getActions" /\ evaluation.pc = "returned" =>
        LET r == evaluation.entries IN
        /\ \A x \in 1..Len(r) :
              r[x].priority = IF WrittenPriority(r[x].source) # ""
                              THEN parseInt(WrittenPriority(r[x].source))
                              ELSE r[x].source - 1
        /\ \A x, y \in 1..Len(r) :
              x < y => \/ r[x].priority < r[y].priority
                       \/ r[x].priority = r[y].priority /\ r[x].source < r[y].source

\* The action the first four letters of a word select, "" for none.
Selected(word) ==
    IF Len(Word(word)) >= 4 /\ \E i \in 1..Len(DiscoverActions) :
            StartsWith(Word(DiscoverActions[i].name), SubSeq(Word(word), 1, 4))
    THEN DiscoverActions[CHOOSE i \in 1..Len(DiscoverActions) :
            StartsWith(Word(DiscoverActions[i].name), SubSeq(Word(word), 1, 4))].name
    ELSE ""

\* C25: getActions raises no error; it returns an entry for exactly the
\* keys whose first four letters select a legal action (a key with fewer
\* than four leading letters selects none), and an entry holds the flags
\* of its key that are legal for its action, and no others.
C25_UnknownKeysDropped ==
    evaluation.fn = "getActions" /\ evaluation.pc # "called" =>
        /\ evaluation.pc = "returned"
        /\ {evaluation.entries[x].source : x \in 1..Len(evaluation.entries)}
              = {n \in 1..Len(evaluation.obj) : Selected(evaluation.obj[n].word) # ""}
        /\ \A x \in 1..Len(evaluation.entries) :
              LET e == evaluation.entries[x]
                  key == evaluation.obj[e.source]
                  legal == DiscoverActions[CHOOSE i \in 1..Len(DiscoverActions) :
                                DiscoverActions[i].name = e.action].validFlags
              IN /\ e.action = Selected(key.word)
                 /\ e.flags.kept = {key.flags[m].key : m \in 1..Len(key.flags)} \cap legal

(***************************************************************************)
(* Properties of the `match` action of discover                            *)
(***************************************************************************)
\* The pairs of a block that match the binary, and those that do not.
MatchingPairs(block) ==
    {k \in 1..Len(block.entries) : evaluation.compilerPath \in block.entries[k].hits}
MissingPairs(block) == (1..Len(block.entries)) \ MatchingPairs(block)
Lowest(S) == CHOOSE k \in S : \A m \in S : k <= m

\* What a `match` block is to do: the pairs whose fragments are merged, and
\* whether the candidate is rejected.
MergedPairs(block) ==
    LET hits == MatchingPairs(block)  misses == MissingPairs(block) IN
    IF "oneof" \in block.flags THEN (IF hits = {} THEN {} ELSE {Lowest(hits)})
    ELSE IF "optional" \in block.flags \/ misses = {} THEN hits
    ELSE {k \in hits : k < Lowest(misses)}
Rejects(block) ==
    /\ "optional" \notin block.flags
    /\ IF "oneof" \in block.flags THEN MatchingPairs(block) = {} ELSE MissingPairs(block) # {}

\* The blocks discover runs: those up to the first one that rejects.
BlocksRun ==
    {b \in 1..Len(evaluation.requirements) :
        \A a \in 1..(b - 1) : ~Rejects(evaluation.requirements[a])}

\* C26: discover rejects the candidate exactly when a block rejects it: a
\* `oneof` block without a matching pair, or a block without `oneof` with a
\* pair that does not match, unless the block is `optional`; of every block
\* it runs it merges the fragment of the first matching pair (`oneof`) or of
\* every matching pair up to the rejection, in source order, and no other.
C26_MatchBlocks ==
    evaluation.fn = "discover" /\ evaluation.pc = "done" =>
        LET reqs == evaluation.requirements
            applied == evaluation.applied
        IN /\ evaluation.ok <=> \A b \in 1..Len(reqs) : ~Rejects(reqs[b])
           /\ {applied[x] : x \in 1..Len(applied)}
                 = UNION {{<<b, k>> : k \in MergedPairs(reqs[b])} : b \in BlocksRun}
           /\ \A x, y \in 1..Len(applied) :
                 x < y => \/ applied[x][1] < applied[y][1]
                          \/ applied[x][1] = applied[y][1] /\ applied[x][2] < applied[y][2]

\* A `oneof` block with two matching pairs merged its first only, and a
\* block without `oneof` merged its first pair and rejected at its second.
C26_Witness ==
    /\ evaluation.fn = "discover" /\ evaluation.pc = "done"
    /\ Len(evaluation.requirements) = 2
    /\ evaluation.requirements[1].flags = {"oneof"}
    /\ MatchingPairs(evaluation.requirements[1]) = {1, 2}
    /\ evaluation.requirements[2].flags = {}
    /\ MatchingPairs(evaluation.requirements[2]) = {1}
    /\ MissingPairs(evaluation.requirements[2]) = {2}
    /\ evaluation.applied = << <<1, 1>>, <<2, 1>> >>
    /\ ~evaluation.ok

(***************************************************************************)
(* Properties of Toolset.query                                             *)
(***************************************************************************)
\* C27: when Toolset.query has returned or has failed, none of the scratch
\* files it created for the tmp tokens of its command is left.
C27_ScratchFilesDeleted ==
    evaluation.fn = "query" /\ evaluation.pc \in {"returned", "threw"} => evaluation.scratch = {}

(***************************************************************************)
(* Properties of runTasks                                                  *)
(***************************************************************************)
\* The command line with every response file argument replaced in place by
\* the arguments its file holds.
RECURSIVE Inlined(_)
Inlined(argv) ==
    IF argv = << >> THEN << >>
    ELSE (IF StartsWithAt(Head(argv)) THEN ResponseFileArgs(Head(argv)) ELSE << Head(argv) >>)
            \o Inlined(Tail(argv))

\* C28: after the task `inline-response-file` the command line is the
\* input with every `@` argument replaced in place by the arguments of its
\* file, at every position: no `@` argument of the input remains and the
\* other arguments keep their order.
C28_ResponseFilesInlined ==
    evaluation.fn = "runTasks" /\ evaluation.pc = "done"
        => evaluation.commandLineArgs = Inlined(evaluation.input)

(***************************************************************************)
(* Properties of mergeObjects                                              *)
(***************************************************************************)
\* C29: after a merge, a key whose value in the source is null is absent
\* from the target, whether or not the target held the key before (here
\* for the key `a` of the documents and of the objects under `o`).
C29_NullDeletes ==
    evaluation.fn = "mergeObjects" /\ evaluation.pc = "once" =>
        /\ evaluation.source.v.a = Null => evaluation.once.v.a = Undefined
        /\ (evaluation.source.v.o # Undefined /\ evaluation.source.v.o.v.a = Null)
              => (evaluation.once.v.o = Undefined \/ evaluation.once.v.o.v.a = Undefined)

\* C30: merging the source key `remove:a` completes without error; a
\* list under `a` keeps, in their order, the elements that are not listed,
\* a string under `a` that is listed is deleted, and every other key is
\* left as it was.
C30_RemoveKey ==
    evaluation.fn = "mergeObjects:remove" /\ evaluation.pc # "called" =>
        LET before == evaluation.target.v
            after == evaluation.result.v
            v == StringsOf(evaluation.value)
        IN /\ evaluation.pc = "returned"
           /\ after.b = before.b /\ after.key = before.key
           /\ after.a = IF before.a.t = "array"
                        THEN Arr(SelectSeq(before.a.v, LAMBDA each : each \notin v))
                        ELSE IF before.a.t = "string" /\ before.a \in v THEN Undefined
                        ELSE before.a

\* C31: a source list merged into a target list is appended in source
\* order (put in front under `prepend:`), duplicates included; merged into
\* a target string it gives a flat list that holds the string and the
\* source elements.
C31_ListsAppended ==
    evaluation.fn = "mergeObjects:list" /\ evaluation.pc = "returned" =>
        LET t == evaluation.target  s == evaluation.value  r == evaluation.result IN
        IF t.t = "array"
        THEN r = Arr(IF evaluation.prepend THEN s.v \o t.v ELSE t.v \o s.v)
        ELSE /\ r.t = "array"
             /\ \A i \in 1..Len(r.v) : r.v[i].t = "string"
             /\ {r.v[i] : i \in 1..Len(r.v)} = {t} \cup {s.v[i] : i \in 1..Len(s.v)}
             /\ Len(r.v) = 1 + Len(s.v)

(***************************************************************************)
(* Properties of the sandbox                                               *)
(***************************************************************************)
\* C32: an evaluation whose code does not parse or throws returns a falsy
\* result and raises nothing, with and without a context.
C32_FalsyOnError ==
    evaluation.fn = "safeEval" =>
        \A i \in 1..Len(evaluation.calls) :
            evaluation.calls[i].code \in {"(", "null.f"}
                => evaluation.calls[i].outcome = "returned" /\ evaluation.calls[i].result = "undefined"

\* C40: the result of safeEval(code, context) depends only on code and
\* context: every call ends as the same call on a sandbox no evaluation has
\* used, so no context variable and no result slot of an earlier call is
\* visible to it.
C40_EvaluationsIsolated ==
    evaluation.fn = "safeEval" =>
        \A i \in 1..Len(evaluation.calls) :
            LET call == evaluation.calls[i]
                alone == SafeEval(<< >>, call.code, call.context, call.response)
            IN call.outcome = alone.outcome /\ call.result = alone.result

(***************************************************************************)
(* Properties of the calls in flight                                       *)
(***************************************************************************)
\* C33: every call of identifyToolset eventually settles: it returns a
\* toolset or undefined, or throws.
C33_IdentifySettles ==
    \A c \in Callers : (callers[c].op = "identifyToolset") ~> (callers[c].pc = "done")

\* C34: every call of initialize settles the `initialized` promise it
\* created, and no call that waits on `initialized` waits forever.
C34_InitializedSettles ==
    /\ \A c \in Callers : (initialized = c) ~> (c \in resolvedInit)
    /\ \A c \in Callers : (callers[c].pc \in {"awaitInitialized", "awaitInitialized2"})
                            ~> (callers[c].pc \notin {"awaitInitialized", "awaitInitialized2"})

\* C35: no step of getIntellisenseConfiguration changes the
\* definition.intellisense of the toolset, its nested lists and mappings
\* included.
C35_DefinitionUnchanged == [][intellisense' = intellisense]_vars

(***************************************************************************)
(* Properties of a reset                                                   *)
(***************************************************************************)
\* C36: a call of identifyToolset made after an initialize that reset the
\* registry returns no toolset that the registry does not hold when the
\* call returns.
C36_NoStaleToolset ==
    [][\A c \in Callers :
          (/\ callers'[c].op = "identifyToolset"
           /\ callers[c].pc # "done"
           /\ callers'[c].pc = "done"
           /\ callers'[c].ret = "toolset"
           /\ callers'[c].epoch >= 1
           /\ callers'[c].epoch = Resets')
          => \E i \in 1..Len(registry') : registry'[i].ts = callers'[c].value]_vars

\* C37: the registry holds no toolset registered by a search that was
\* started before the latest reset: the search of every entry that a
\* search registered is the one discoveringInProgress holds for its
\* definition.
C37_NoEntryOfEarlierSearch ==
    \A i \in 1..Len(registry) :
        registry[i].ts.by[1] = "search"
            => discoveringInProgress[registry[i].ts.def] = registry[i].ts.by[2]

Succeeding(block) ==
    {k \in 1..Len(block.entries) :
        LET e == block.entries[k] IN
        /\ evaluation.compilerPath \in e.hits
        /\ block.action = "expression" /\ "folder" \in block.flags => e.isFolder
        /\ block.action = "expression" /\ "folder" \notin block.flags /\ "file" \in block.flags => e.isFile}

\* C39: discover rejects a candidate when a block flagged `oneof` and not
\* `optional` has no entry that succeeds: a candidate is registered only if
\* every such block had one.
C39_OneofNeedsSuccess ==
    evaluation.fn = "discover" /\ evaluation.pc = "done" =>
        \A b \in 1..Len(evaluation.requirements) :
            LET block == evaluation.requirements[b] IN
            ("oneof" \in block.flags /\ "optional" \notin block.flags /\ Succeeding(block) = {})
                => ~evaluation.ok
====
